---- MODULE Spec2Model ----
(***************************************************************************)
(* grepai indexer: Indexer.IndexAll / IndexFile / RemoveFile driving a     *)
(* VectorStore, a Chunker and an Embedder.  One store call is one step, so *)
(* that a concurrent search can observe the store between two calls.       *)
(* The cli search command (runSearch / runWorkspaceSearch) and the stats   *)
(* entry it records are a second machine over the same state.             *)
(* The stats package (Recorder.Record under its file lock, ReadAll,        *)
(* Summarize, HistoryByDay) is a third one.                                *)
(***************************************************************************)
EXTENDS Integers, Sequences, FiniteSets, TLC

VARIABLES
    disk,         \* the project tree: path -> file content (a map; absent paths are not keys)
    chunks,       \* VectorStore: the stored chunks (keyed by ID)
    documents,    \* VectorStore: path -> Document (a map)
    pc,           \* position of the indexer goroutine
    op,           \* the top-level operation running (or the last one that ran)
    files,        \* IndexAll: files returned by Scanner.Scan
    i,            \* IndexAll: index of the file loop
    existingMap,  \* IndexAll: existingMap (paths still to be treated as deleted)
    cur,          \* IndexFile: its file argument
    path,         \* RemoveFile: its path argument
    vectors,      \* IndexFile: the vectors returned by EmbedBatch
    stats,        \* IndexAll: the IndexStats being filled
    err,          \* return of the operation: "pending", "nil" or "error"
    edits,        \* number of changes made to the tree
    ops,          \* number of operations started; also the wall clock of time.Now()
    failures,     \* number of failed store / embedder / scanner calls so far
    run,          \* history of the running operation (calls that failed, paths touched)
    prev,         \* history: how the previous operation ended and what it scanned
    seen,         \* history: what a concurrent search observed during the operation
    cmd,          \* the search command: its flags, its locals, its position and its return
    statsFile,    \* .grepai/stats.json: the entries appended so far
    recorders,    \* the goroutines started by recordSearchStats that have not run yet
    commands,     \* number of search commands started
    statsPath,    \* the file at Recorder.statsPath: whether it exists and its lines
    flock,        \* the processes holding the exclusive lock on the lock file
    procs,        \* the processes calling Recorder.Record: position and locals
    history,      \* history of the Record calls (order of return, overlap, errors)
    reader        \* the stats command: what ReadAll, Summarize and HistoryByDay returned

\* The state of the indexer and of its store.
indexerVars == <<disk, chunks, documents, pc, op, files, i, existingMap, cur, path,
                 vectors, stats, err, edits, ops, failures, run, prev, seen>>

\* The state of the search command and of the stats file.
cliVars == <<cmd, statsFile, recorders, commands>>

\* The stats file as the stats package reads and writes it.
statsVars == <<statsPath, flock, procs, history, reader>>

vars == <<indexerVars, cliVars, statsVars>>

----------------------------------------------------------------------------
(* Bounds and input sets *)

MaxEdits == 2
MaxOps == 3
MaxFailures == 2

\* The paths of the project, in lexicographic order.
PathOrder == <<"a.txt", "b.txt">>
Paths == {PathOrder[k] : k \in 1..Len(PathOrder)}

\* A file content is a sequence of blocks of text; <<>> is an empty file.
Contents == {<<>>, <<1>>, <<1, 2>>}

\* The project trees: any set of the paths, each with any content.
Trees == UNION {[S -> Contents] : S \in SUBSET Paths}

----------------------------------------------------------------------------
(* Scanner, Chunker, Embedder *)

RECURSIVE FileHash(_)
\* FileInfo.Hash: a content hash, collision free over Contents.
FileHash(content) ==
    IF content = <<>> THEN 7
    ELSE (FileHash(SubSeq(content, 1, Len(content) - 1)) * 3 + content[Len(content)]) % 1000

FileInfo(p, content) == [Path |-> p, Hash |-> FileHash(content), Content |-> content]

NoFile == [Path |-> "", Hash |-> 0, Content |-> <<>>]

RECURSIVE ScanFrom(_, _)
ScanFrom(d, k) ==
    IF k > Len(PathOrder) THEN <<>>
    ELSE (IF PathOrder[k] \in DOMAIN d
          THEN <<FileInfo(PathOrder[k], d[PathOrder[k]])>>
          ELSE <<>>) \o ScanFrom(d, k + 1)

\* Scanner.Scan: the files of the tree, in lexicographic order of path.
Scan(d) == ScanFrom(d, 1)

\* Hash of a chunk's text.
ChunkHash(block) == 100 + block

\* Chunker.ChunkWithContext: one chunk per block, none for an empty file.  The
\* id is derived from (file_path, start_line, end_line, content_hash) and the
\* content carries the "File: <path>" header.
ChunkWithContext(p, content) ==
    [k \in 1..Len(content) |->
        [ID        |-> <<p, k, k, ChunkHash(content[k])>>,
         FilePath  |-> p,
         StartLine |-> k,
         EndLine   |-> k,
         Content   |-> <<p, content[k]>>,
         Hash      |-> ChunkHash(content[k])]]

\* Embedder: the vector of one text.
Embed(text) == <<text[2] * 2 - 3>>

\* Embedder.EmbedBatch on success: one vector per text, in input order.
EmbedBatch(contents) == [k \in 1..Len(contents) |-> Embed(contents[k])]

----------------------------------------------------------------------------
(* VectorStore *)

Range(s) == {s[k] : k \in 1..Len(s)}

SaveChunks(cs, new) ==
    {c \in cs : \A n \in Range(new) : n.ID # c.ID} \cup Range(new)

DeleteByFile(cs, filePath) == {c \in cs : c.FilePath # filePath}

HasDocument(ds, filePath) == filePath \in DOMAIN ds

SaveDocument(ds, doc) ==
    [q \in DOMAIN ds \cup {doc.Path} |-> IF q = doc.Path THEN doc ELSE ds[q]]

DeleteDocument(ds, filePath) == [q \in DOMAIN ds \ {filePath} |-> ds[q]]

ListDocuments(ds) == DOMAIN ds

\* VectorStore.Search with a limit above the store's size: every chunk.
Search(cs) == cs

ChunksOf(cs, p) == {c \in cs : c.FilePath = p}

IDsOf(cs) == {c.ID : c \in cs}

----------------------------------------------------------------------------
(* Initial state *)

ZeroStats == [FilesIndexed |-> 0, ChunksCreated |-> 0, FilesRemoved |-> 0]

\* persisted: VectorStore.Persist has been called since the last store change of
\* the run; saved: the number of chunks passed to SaveChunks calls that succeeded.
NewRun == [failed |-> {}, embedded |-> {}, removed |-> {}, indexed |-> {},
           unchanged |-> {}, failedFiles |-> {}, listed |-> {}, old |-> {},
           persisted |-> FALSE, saved |-> 0, oldDoc |-> {}, before |-> {},
           miscount |-> FALSE]

NotSeen == [file |-> "", ids |-> {}, docIds |-> {}, hasDoc |-> FALSE, at |-> "none",
            changed |-> FALSE, old |-> {}, new |-> {}]

\* No search command has run and the stats file does not exist.
NoCommand ==
    [pc |-> "shell", ret |-> "none", query |-> <<>>,
     searchJSON |-> FALSE, searchTOON |-> FALSE, searchCompact |-> FALSE,
     searchWorkspace |-> <<>>, searchProjects |-> <<>>, searchPath |-> <<>>,
     touched |-> {}, pathRejected |-> FALSE, normalizedPath |-> <<>>,
     resolvedProjects |-> <<>>, searched |-> <<>>, searchErr |-> FALSE,
     found |-> <<>>, results |-> <<>>, printed |-> <<>>, spawned |-> 0,
     appended |-> 0]

CliInit ==
    /\ cmd = NoCommand
    /\ statsFile = <<>>
    /\ recorders = {}
    /\ commands = 0

\* The processes that record stats entries.
RecorderProcs == {"p1", "p2"}

\* The stats file before anything was recorded, a process outside Record, a
\* stats command that has not read yet.
AbsentFile == [state |-> "absent", lines |-> <<>>]
IdleProc == [pc |-> "idle", ctx |-> "live", e |-> <<>>, line |-> <<>>, locked |-> FALSE,
             ret |-> "none"]
NoReader == [pc |-> "none", entries |-> <<>>, err |-> FALSE, provider |-> "",
             summary |-> <<>>, days |-> <<>>]
NoHistory == [absent |-> TRUE, returned |-> <<>>, records |-> 0, overlap |-> FALSE,
              failed |-> FALSE, lockFailed |-> FALSE]

\* Nobody records and nobody reads.
NoRecorder ==
    /\ flock = {}
    /\ procs = [p \in RecorderProcs |-> IdleProc]
    /\ reader = NoReader

StatsInit ==
    /\ statsPath = AbsentFile
    /\ history = NoHistory
    /\ NoRecorder

IndexerInit ==
    /\ chunks = {}
    /\ documents = << >>
    /\ pc = "idle"
    /\ op = "none"
    /\ files = <<>>
    /\ i = 1
    /\ existingMap = {}
    /\ cur = NoFile
    /\ path = ""
    /\ vectors = <<>>
    /\ stats = ZeroStats
    /\ err = "nil"
    /\ edits = 0
    /\ ops = 0
    /\ failures = 0
    /\ run = NewRun
    /\ prev = [indexAll |-> FALSE, clean |-> FALSE, changed |-> {}, modified |-> {},
               deleted |-> {}, failedFiles |-> {}]
    /\ seen = NotSeen

Init ==
    /\ disk \in Trees
    /\ IndexerInit
    /\ CliInit
    /\ StatsInit

----------------------------------------------------------------------------
(* The project tree changes only between operations. *)

WriteFile(p, content) ==
    /\ pc = "idle"
    /\ edits < MaxEdits
    /\ ~(p \in DOMAIN disk /\ disk[p] = content)
    /\ disk' = [q \in DOMAIN disk \cup {p} |-> IF q = p THEN content ELSE disk[q]]
    /\ edits' = edits + 1
    /\ UNCHANGED <<statsVars, cliVars, chunks, documents, pc, op, files, i, existingMap, cur, path,
                   vectors, stats, err, ops, failures, run, prev, seen>>

DeleteFile(p) ==
    /\ pc = "idle"
    /\ edits < MaxEdits
    /\ p \in DOMAIN disk
    /\ disk' = [q \in DOMAIN disk \ {p} |-> disk[q]]
    /\ edits' = edits + 1
    /\ UNCHANGED <<statsVars, cliVars, chunks, documents, pc, op, files, i, existingMap, cur, path,
                   vectors, stats, err, ops, failures, run, prev, seen>>

----------------------------------------------------------------------------
(* Bookkeeping shared by the steps *)

\* A call fails: counted, and remembered for the running operation.
Fail(call) ==
    /\ failures < MaxFailures
    /\ failures' = failures + 1

Failed(call) == [run EXCEPT !.failed = @ \cup {call}]

\* The paths whose presence or content differs between two scans.
Changed(old, new) ==
    {p \in Paths : {f \in Range(old) : f.Path = p} # {f \in Range(new) : f.Path = p}}

\* The paths that are in both scans, with different content.
Modified(old, new) ==
    {p \in Changed(old, new) :
        (\E f \in Range(old) : f.Path = p) /\ (\E f \in Range(new) : f.Path = p)}

\* The paths that are in the old scan and not in the new one.
Deleted(old, new) ==
    {p \in Changed(old, new) :
        (\E f \in Range(old) : f.Path = p) /\ ~(\E f \in Range(new) : f.Path = p)}

\* History kept when an operation starts.
Begin(name) ==
    /\ pc = "idle"
    /\ ops < MaxOps
    /\ ops' = ops + 1
    /\ op' = name
    /\ prev' = [indexAll |-> op = "IndexAll",
                clean    |-> op = "IndexAll" /\ err = "nil" /\ run.failed = {},
                changed  |-> Changed(files, Scan(disk)),
                modified |-> Modified(files, Scan(disk)),
                deleted  |-> Deleted(files, Scan(disk)),
                failedFiles |-> IF op = "IndexAll" THEN run.failedFiles ELSE {}]
    /\ seen' = NotSeen

\* IndexAll, lines 162-163 and 188: the head of the file loop, then the
\* removal loop once every file has been visited.
LoopHead(k) == IF k <= Len(files) THEN "GetDocument" ELSE "range"

----------------------------------------------------------------------------
(* Indexer.IndexAll *)

\* Lines 137-145: Scanner.Scan succeeds.
IndexAll_Scan ==
    /\ Begin("IndexAll")
    /\ files' = Scan(disk)
    /\ stats' = ZeroStats
    /\ i' = 1
    /\ existingMap' = {}
    /\ run' = NewRun
    /\ pc' = "ListDocuments"
    /\ err' = "pending"
    /\ UNCHANGED <<statsVars, cliVars, disk, chunks, documents, cur, path, vectors, edits, failures>>

\* IndexAll_ScanErr with a slip: the error is ignored and the run goes on with
\* no file.
IndexAll_ScanErr_Ignored ==
    /\ Begin("IndexAll")
    /\ Fail("Scan")
    /\ files' = <<>>
    /\ stats' = ZeroStats
    /\ i' = 1
    /\ existingMap' = {}
    /\ run' = [NewRun EXCEPT !.failed = {"Scan"}]
    /\ pc' = "ListDocuments"
    /\ err' = "pending"
    /\ UNCHANGED <<statsVars, cliVars, disk, chunks, documents, cur, path, vectors, edits>>

\* Lines 141-144: Scanner.Scan fails; IndexAll returns nil and the error.
IndexAll_ScanErr ==
    /\ Begin("IndexAll")
    /\ Fail("Scan")
    /\ files' = <<>>
    /\ stats' = ZeroStats
    /\ i' = 1
    /\ existingMap' = {}
    /\ run' = [NewRun EXCEPT !.failed = {"Scan"}]
    /\ pc' = "idle"
    /\ err' = "error"
    /\ UNCHANGED <<statsVars, cliVars, disk, chunks, documents, cur, path, vectors, edits>>

\* Lines 151-160: ListDocuments succeeds; existingMap holds every listed path.
IndexAll_ListDocuments ==
    /\ pc = "ListDocuments"
    /\ existingMap' = ListDocuments(documents)
    /\ run' = [run EXCEPT !.listed = ListDocuments(documents)]
    /\ i' = 1
    /\ pc' = LoopHead(1)
    /\ UNCHANGED <<statsVars, cliVars, disk, chunks, documents, op, files, cur, path, vectors, stats,
                   err, edits, ops, failures, prev, seen>>

\* Lines 152-155: ListDocuments fails; IndexAll returns nil and the error.
IndexAll_ListDocumentsErr ==
    /\ pc = "ListDocuments"
    /\ Fail("ListDocuments")
    /\ run' = Failed("ListDocuments")
    /\ pc' = "idle"
    /\ err' = "error"
    /\ UNCHANGED <<statsVars, cliVars, disk, chunks, documents, op, files, i, existingMap, cur, path,
                   vectors, stats, edits, ops, prev, seen>>

\* Lines 165-173: the file's document has the file's hash: the file is unchanged.
FileUnchanged(ds, file) == HasDocument(ds, file.Path) /\ ds[file.Path].Hash = file.Hash

\* Lines 163-176: GetDocument succeeds; an unchanged file is skipped, any other
\* file is handed to IndexFile.
IndexAll_GetDocument ==
    /\ pc = "GetDocument"
    /\ IF FileUnchanged(documents, files[i])
       THEN /\ existingMap' = existingMap \ {files[i].Path}
            /\ i' = i + 1
            /\ pc' = LoopHead(i + 1)
            /\ run' = [run EXCEPT !.unchanged = @ \cup {files[i].Path}]
            /\ UNCHANGED cur
       ELSE /\ cur' = files[i]
            /\ pc' = "IF_DeleteByFile"
            /\ run' = [run EXCEPT !.old = IDsOf(ChunksOf(chunks, files[i].Path)),
                                   !.oldDoc = IF HasDocument(documents, files[i].Path)
                                              THEN {documents[files[i].Path]}
                                              ELSE {}]
            /\ UNCHANGED <<existingMap, i>>
    /\ UNCHANGED <<statsVars, cliVars, disk, chunks, documents, op, files, path, vectors, stats, err,
                   edits, ops, failures, prev, seen>>

\* Lines 165-168: GetDocument fails; IndexAll returns nil and the error.
IndexAll_GetDocumentErr ==
    /\ pc = "GetDocument"
    /\ Fail("GetDocument")
    /\ run' = Failed("GetDocument")
    /\ pc' = "idle"
    /\ err' = "error"
    /\ i' = 1
    /\ existingMap' = {}
    /\ UNCHANGED <<statsVars, cliVars, disk, chunks, documents, op, files, cur, path, vectors, stats,
                   edits, ops, prev, seen>>

\* Lines 188-198: the removal loop takes the next path of existingMap (a Go map:
\* in any order), and IndexAll returns the statistics when none is left.
IndexAll_Range ==
    /\ pc = "range"
    /\ IF existingMap = {}
       THEN /\ pc' = "idle"
            /\ err' = "nil"
            /\ i' = 1
            /\ UNCHANGED <<existingMap, path, run>>
       ELSE \E p \in existingMap :
            /\ existingMap' = existingMap \ {p}
            /\ path' = p
            /\ run' = [run EXCEPT !.removed = @ \cup {p}]
            /\ pc' = "RM_DeleteByFile"
            /\ UNCHANGED <<err, i>>
    /\ UNCHANGED <<statsVars, cliVars, disk, chunks, documents, op, files, cur, vectors, stats,
                   edits, ops, failures, prev, seen>>

----------------------------------------------------------------------------
(* Indexer.IndexFile *)

\* IndexFileReturn with a slip: IndexAll gives up on the first file that fails.
IndexFileReturn_Abort(n, e) ==
    IF op = "IndexAll" /\ e
    THEN /\ pc' = "idle"
         /\ err' = "error"
         /\ i' = 1
         /\ existingMap' = {}
         /\ run' = [run EXCEPT !.failedFiles = @ \cup {cur.Path},
                               !.failed = @ \cup {pc}]
         /\ UNCHANGED stats
    ELSE /\ IF op = "IndexAll"
            THEN /\ stats' = [stats EXCEPT !.FilesIndexed = @ + 1,
                                           !.ChunksCreated = @ + n]
                 /\ existingMap' = existingMap \ {cur.Path}
                 /\ i' = i + 1
                 /\ pc' = LoopHead(i + 1)
                 /\ UNCHANGED err
            ELSE /\ pc' = "idle"
                 /\ err' = IF e THEN "error" ELSE "nil"
                 /\ UNCHANGED <<stats, existingMap, i>>
         /\ run' = IF e THEN [run EXCEPT !.failedFiles = @ \cup {cur.Path},
                                         !.failed = @ \cup {pc}]
                        ELSE [run EXCEPT !.indexed = @ \cup {cur.Path}]

\* What the caller does when IndexFile returns (n, e).  In IndexAll, lines
\* 176-186: an error is logged and the loop goes on, a success is counted and
\* the path leaves existingMap.  Called alone, the operation returns.
IndexFileReturn(n, e) ==
    IF op = "IndexAll"
    THEN /\ IF e
            THEN /\ UNCHANGED <<stats, existingMap>>
                 /\ run' = [run EXCEPT !.failedFiles = @ \cup {cur.Path},
                                       !.failed = @ \cup {pc},
                                       !.before = @ \cup {[path |-> cur.Path, ids |-> run.old,
                                                            doc |-> run.oldDoc]}]
            ELSE /\ stats' = [stats EXCEPT !.FilesIndexed = @ + 1,
                                           !.ChunksCreated = @ + n]
                 /\ existingMap' = existingMap \ {cur.Path}
                 /\ run' = [run EXCEPT !.indexed = @ \cup {cur.Path}]
         /\ i' = i + 1
         /\ pc' = LoopHead(i + 1)
         /\ UNCHANGED err
    ELSE /\ pc' = "idle"
         /\ err' = IF e THEN "error" ELSE "nil"
         /\ run' = IF e THEN [run EXCEPT !.failedFiles = @ \cup {cur.Path},
                                         !.failed = @ \cup {pc},
                                         !.before = @ \cup {[path |-> cur.Path,
                                                              ids |-> run.old,
                                                              doc |-> run.oldDoc]}]
                        ELSE [run EXCEPT !.indexed = @ \cup {cur.Path}]
         /\ UNCHANGED <<stats, existingMap, i>>

\* IndexFile returns: its arguments and locals are gone, and a search that
\* started during the call has ended.
IndexFileExit ==
    /\ cur' = NoFile
    /\ vectors' = <<>>
    /\ seen' = NotSeen

\* Lines 203-212: DeleteByFile succeeds, the file is chunked, and a file with
\* no chunk returns (0, nil) at once.
IndexFile_DeleteByFile ==
    /\ pc = "IF_DeleteByFile"
    /\ chunks' = DeleteByFile(chunks, cur.Path)
    /\ IF Len(ChunkWithContext(cur.Path, cur.Content)) = 0
       THEN IndexFileReturn(0, FALSE) /\ IndexFileExit
       ELSE /\ pc' = "IF_EmbedBatch"
            /\ UNCHANGED <<stats, existingMap, i, err, run, cur, vectors, seen>>
    /\ UNCHANGED <<statsVars, cliVars, disk, documents, op, files, path, edits, ops, failures, prev>>

\* Lines 204-206: DeleteByFile fails.
IndexFile_DeleteByFileErr ==
    /\ pc = "IF_DeleteByFile"
    /\ Fail("IF_DeleteByFile")
    /\ IndexFileReturn(0, TRUE)
    /\ IndexFileExit
    /\ UNCHANGED <<statsVars, cliVars, disk, chunks, documents, op, files, path, edits, ops, prev>>

\* Lines 214-223: EmbedBatch returns the vectors of the chunks' contents.
IndexFile_EmbedBatch ==
    /\ pc = "IF_EmbedBatch"
    /\ LET chunkInfos == ChunkWithContext(cur.Path, cur.Content)
       IN  vectors' = EmbedBatch([k \in 1..Len(chunkInfos) |-> chunkInfos[k].Content])
    /\ run' = [run EXCEPT !.embedded = @ \cup {cur.Path}]
    /\ pc' = "IF_SaveChunks"
    /\ UNCHANGED <<statsVars, cliVars, disk, chunks, documents, op, files, i, existingMap, cur, path,
                   stats, err, edits, ops, failures, prev, seen>>

\* Lines 220-223: EmbedBatch fails.
IndexFile_EmbedBatchErr ==
    /\ pc = "IF_EmbedBatch"
    /\ Fail("IF_EmbedBatch")
    /\ IndexFileReturn(0, TRUE)
    /\ IndexFileExit
    /\ UNCHANGED <<statsVars, cliVars, disk, chunks, documents, op, files, path, edits, ops, prev>>

\* StoreChunks with a slip: the vectors are paired with the chunks in reverse.
StoreChunks_VectorsReversed(file, vecs, now) ==
    LET chunkInfos == ChunkWithContext(file.Path, file.Content)
    IN  [k \in 1..Len(chunkInfos) |->
            [ID        |-> chunkInfos[k].ID,
             FilePath  |-> chunkInfos[k].FilePath,
             StartLine |-> chunkInfos[k].StartLine,
             EndLine   |-> chunkInfos[k].EndLine,
             Content   |-> chunkInfos[k].Content,
             Vector    |-> vecs[Len(chunkInfos) + 1 - k],
             Hash      |-> chunkInfos[k].Hash,
             UpdatedAt |-> now]]

\* Lines 225-242: the store chunks, the i-th with the i-th vector.
StoreChunks(file, vecs, now) ==
    LET chunkInfos == ChunkWithContext(file.Path, file.Content)
    IN  [k \in 1..Len(chunkInfos) |->
            [ID        |-> chunkInfos[k].ID,
             FilePath  |-> chunkInfos[k].FilePath,
             StartLine |-> chunkInfos[k].StartLine,
             EndLine   |-> chunkInfos[k].EndLine,
             Content   |-> chunkInfos[k].Content,
             Vector    |-> vecs[k],
             Hash      |-> chunkInfos[k].Hash,
             UpdatedAt |-> now]]

\* Lines 249-255: the document of the file.
NewDocument(file) ==
    LET chunkInfos == ChunkWithContext(file.Path, file.Content)
    IN  [Path     |-> file.Path,
         Hash     |-> file.Hash,
         ChunkIDs |-> [k \in 1..Len(chunkInfos) |-> chunkInfos[k].ID]]

\* Lines 229-242: the loop reads vectors[i] for every chunk.
EnoughVectors == Len(vectors) >= Len(ChunkWithContext(cur.Path, cur.Content))

\* Lines 244-247: SaveChunks succeeds.
IndexFile_SaveChunks ==
    /\ pc = "IF_SaveChunks"
    /\ EnoughVectors
    /\ chunks' = SaveChunks(chunks, StoreChunks(cur, vectors, ops))
    /\ run' = [run EXCEPT !.saved = @ + Len(StoreChunks(cur, vectors, ops))]
    /\ pc' = "IF_SaveDocument"
    /\ UNCHANGED <<statsVars, cliVars, disk, documents, op, files, i, existingMap, cur, path, vectors,
                   stats, err, edits, ops, failures, prev, seen>>

\* Lines 245-247: SaveChunks fails.
IndexFile_SaveChunksErr ==
    /\ pc = "IF_SaveChunks"
    /\ EnoughVectors
    /\ Fail("IF_SaveChunks")
    /\ IndexFileReturn(0, TRUE)
    /\ IndexFileExit
    /\ UNCHANGED <<statsVars, cliVars, disk, chunks, documents, op, files, path, edits, ops, prev>>

\* Lines 249-261: SaveDocument succeeds; IndexFile returns the number of chunks.
IndexFile_SaveDocument ==
    /\ pc = "IF_SaveDocument"
    /\ documents' = SaveDocument(documents, NewDocument(cur))
    /\ IndexFileReturn(Len(StoreChunks(cur, vectors, ops)), FALSE)
    /\ IndexFileExit
    /\ UNCHANGED <<statsVars, cliVars, disk, chunks, op, files, path, edits, ops, failures, prev>>

\* Lines 257-259: SaveDocument fails.
IndexFile_SaveDocumentErr ==
    /\ pc = "IF_SaveDocument"
    /\ Fail("IF_SaveDocument")
    /\ IndexFileReturn(0, TRUE)
    /\ IndexFileExit
    /\ UNCHANGED <<statsVars, cliVars, disk, chunks, documents, op, files, path, edits, ops, prev>>

\* An Embedder that breaks its contract: EmbedBatch returns no error and one
\* vector too few or one too many.
EmbedBatch_Miscount(contents, extra) ==
    IF extra
    THEN Append(EmbedBatch(contents), Embed(contents[1]))
    ELSE SubSeq(EmbedBatch(contents), 1, Len(contents) - 1)

\* Lines 214-223 with such an Embedder: IndexFile does not compare
\* len(vectors) with len(chunkInfos) and goes on.
IndexFile_EmbedBatchMiscount ==
    /\ pc = "IF_EmbedBatch"
    /\ \E extra \in BOOLEAN :
          LET chunkInfos == ChunkWithContext(cur.Path, cur.Content)
          IN  vectors' = EmbedBatch_Miscount(
                             [k \in 1..Len(chunkInfos) |-> chunkInfos[k].Content], extra)
    /\ run' = [run EXCEPT !.embedded = @ \cup {cur.Path}, !.miscount = TRUE]
    /\ pc' = "IF_SaveChunks"
    /\ UNCHANGED <<statsVars, cliVars, disk, chunks, documents, op, files, i, existingMap, cur, path,
                   stats, err, edits, ops, failures, prev, seen>>

\* Lines 229-242 with too few vectors: vectors[i] is out of range, the Go
\* runtime panics and IndexFile never returns.
IndexFile_Panic ==
    /\ pc = "IF_SaveChunks"
    /\ ~EnoughVectors
    /\ pc' = "panic"
    /\ err' = "panic"
    /\ UNCHANGED <<statsVars, cliVars, disk, chunks, documents, op, files, i, existingMap, cur, path,
                   vectors, stats, edits, ops, failures, run, prev, seen>>

\* IndexFile called on its own (the watcher's path) for a file of the tree.
IndexFile_Call(p) ==
    /\ Begin("IndexFile")
    /\ p \in DOMAIN disk
    /\ cur' = FileInfo(p, disk[p])
    /\ run' = [NewRun EXCEPT !.old = IDsOf(ChunksOf(chunks, p)),
                              !.oldDoc = IF HasDocument(documents, p)
                                         THEN {documents[p]}
                                         ELSE {}]
    /\ pc' = "IF_DeleteByFile"
    /\ err' = "pending"
    /\ UNCHANGED <<statsVars, cliVars, disk, chunks, documents, files, i, existingMap, path, vectors,
                   stats, edits, failures>>

----------------------------------------------------------------------------
(* Indexer.RemoveFile *)

\* What the caller does when RemoveFile returns.  In IndexAll, lines 189-195:
\* an error is logged and the loop goes on, a success is counted.
RemoveFileReturn(e) ==
    IF op = "IndexAll"
    THEN /\ stats' = IF e THEN stats ELSE [stats EXCEPT !.FilesRemoved = @ + 1]
         /\ run' = IF e THEN Failed(pc) ELSE run
         /\ pc' = "range"
         /\ UNCHANGED err
    ELSE /\ pc' = "idle"
         /\ err' = IF e THEN "error" ELSE "nil"
         /\ run' = IF e THEN Failed(pc) ELSE run
         /\ UNCHANGED stats

\* Lines 266-268: DeleteByFile succeeds.
RemoveFile_DeleteByFile ==
    /\ pc = "RM_DeleteByFile"
    /\ chunks' = DeleteByFile(chunks, path)
    /\ pc' = "RM_DeleteDocument"
    /\ UNCHANGED <<statsVars, cliVars, disk, documents, op, files, i, existingMap, cur, path, vectors,
                   stats, err, edits, ops, failures, run, prev, seen>>

\* Lines 266-268: DeleteByFile fails.
RemoveFile_DeleteByFileErr ==
    /\ pc = "RM_DeleteByFile"
    /\ Fail("RM_DeleteByFile")
    /\ RemoveFileReturn(TRUE)
    /\ path' = ""
    /\ UNCHANGED <<statsVars, cliVars, disk, chunks, documents, op, files, i, existingMap, cur,
                   vectors, edits, ops, prev, seen>>

\* Lines 270-274: DeleteDocument succeeds.
RemoveFile_DeleteDocument ==
    /\ pc = "RM_DeleteDocument"
    /\ documents' = DeleteDocument(documents, path)
    /\ RemoveFileReturn(FALSE)
    /\ path' = ""
    /\ UNCHANGED <<statsVars, cliVars, disk, chunks, op, files, i, existingMap, cur, vectors,
                   edits, ops, failures, prev, seen>>

\* Lines 270-272: DeleteDocument fails.
RemoveFile_DeleteDocumentErr ==
    /\ pc = "RM_DeleteDocument"
    /\ Fail("RM_DeleteDocument")
    /\ RemoveFileReturn(TRUE)
    /\ path' = ""
    /\ UNCHANGED <<statsVars, cliVars, disk, chunks, documents, op, files, i, existingMap, cur,
                   vectors, edits, ops, prev, seen>>

\* RemoveFile called on its own (the watcher's path).
RemoveFile_Call(p) ==
    /\ Begin("RemoveFile")
    /\ path' = p
    /\ run' = [NewRun EXCEPT !.removed = {p}]
    /\ pc' = "RM_DeleteByFile"
    /\ err' = "pending"
    /\ UNCHANGED <<statsVars, cliVars, disk, chunks, documents, files, i, existingMap, cur, vectors,
                   stats, edits, failures>>

----------------------------------------------------------------------------
(* A search running while IndexFile is between two store calls *)

InIndexFile == pc \in {"IF_DeleteByFile", "IF_EmbedBatch", "IF_SaveChunks", "IF_SaveDocument"}

ConcurrentSearch ==
    /\ InIndexFile
    /\ seen.at = "none"
    /\ seen' = [file   |-> cur.Path,
                ids    |-> IDsOf(ChunksOf(Search(chunks), cur.Path)),
                docIds |-> IF HasDocument(documents, cur.Path)
                           THEN Range(documents[cur.Path].ChunkIDs) ELSE {},
                hasDoc |-> HasDocument(documents, cur.Path),
                at     |-> pc,
                changed |-> ~FileUnchanged(documents, cur),
                old    |-> run.old,
                new    |-> IDsOf(Range(ChunkWithContext(cur.Path, cur.Content)))]
    /\ UNCHANGED <<statsVars, cliVars, disk, chunks, documents, pc, op, files, i, existingMap, cur,
                   path, vectors, stats, err, edits, ops, failures, run, prev>>

----------------------------------------------------------------------------

Next ==
    \/ \E p \in Paths, content \in Contents : WriteFile(p, content)
    \/ \E p \in Paths : DeleteFile(p)
    \/ IndexAll_Scan
    \/ IndexAll_ScanErr
    \/ IndexAll_ListDocuments
    \/ IndexAll_ListDocumentsErr
    \/ IndexAll_GetDocument
    \/ IndexAll_GetDocumentErr
    \/ IndexAll_Range
    \/ IndexFile_DeleteByFile
    \/ IndexFile_DeleteByFileErr
    \/ IndexFile_EmbedBatch
    \/ IndexFile_EmbedBatchErr
    \/ IndexFile_SaveChunks
    \/ IndexFile_SaveChunksErr
    \/ IndexFile_SaveDocument
    \/ IndexFile_SaveDocumentErr
    \/ \E p \in Paths : IndexFile_Call(p)
    \/ RemoveFile_DeleteByFile
    \/ RemoveFile_DeleteByFileErr
    \/ RemoveFile_DeleteDocument
    \/ RemoveFile_DeleteDocumentErr
    \/ \E p \in Paths : RemoveFile_Call(p)
    \/ ConcurrentSearch

Spec == Init /\ [][Next]_vars

\* IndexAll runs alone: no watcher call and no search between them.
NextIndexAll ==
    \/ \E p \in Paths, content \in Contents : WriteFile(p, content)
    \/ \E p \in Paths : DeleteFile(p)
    \/ IndexAll_Scan
    \/ IndexAll_ScanErr
    \/ IndexAll_ListDocuments
    \/ IndexAll_ListDocumentsErr
    \/ IndexAll_GetDocument
    \/ IndexAll_GetDocumentErr
    \/ IndexAll_Range
    \/ IndexFile_DeleteByFile
    \/ IndexFile_DeleteByFileErr
    \/ IndexFile_EmbedBatch
    \/ IndexFile_EmbedBatchErr
    \/ IndexFile_SaveChunks
    \/ IndexFile_SaveChunksErr
    \/ IndexFile_SaveDocument
    \/ IndexFile_SaveDocumentErr
    \/ RemoveFile_DeleteByFile
    \/ RemoveFile_DeleteByFileErr
    \/ RemoveFile_DeleteDocument
    \/ RemoveFile_DeleteDocumentErr

SpecIndexAll == Init /\ [][NextIndexAll]_vars

\* IndexFile called on its own, with an Embedder that may return the wrong
\* number of vectors.
NextIndexFile ==
    \/ \E p \in Paths, content \in Contents : WriteFile(p, content)
    \/ \E p \in Paths : IndexFile_Call(p)
    \/ IndexFile_DeleteByFile
    \/ IndexFile_DeleteByFileErr
    \/ IndexFile_EmbedBatch
    \/ IndexFile_EmbedBatchErr
    \/ IndexFile_EmbedBatchMiscount
    \/ IndexFile_Panic
    \/ IndexFile_SaveChunks
    \/ IndexFile_SaveChunksErr
    \/ IndexFile_SaveDocument
    \/ IndexFile_SaveDocumentErr

SpecIndexFile == Init /\ [][NextIndexFile]_vars

----------------------------------------------------------------------------
(* Vocabulary of the properties *)

\* An IndexAll run has returned, and nothing has started since.
IndexAllReturned == pc = "idle" /\ op = "IndexAll"

ScannedPaths == {f.Path : f \in Range(files)}

ScannedFile(p) == CHOOSE f \in Range(files) : f.Path = p

\* What the chunker produced, as found in a stored chunk.
ChunkInfoOf(c) ==
    [ID |-> c.ID, FilePath |-> c.FilePath, StartLine |-> c.StartLine,
     EndLine |-> c.EndLine, Content |-> c.Content, Hash |-> c.Hash]

\* The chunks that chunking the scanned content of p produces (none for a path
\* that is not in the scan).
ExpectedChunks(p) ==
    IF p \in ScannedPaths
    THEN Range(ChunkWithContext(p, ScannedFile(p).Content))
    ELSE {}

----------------------------------------------------------------------------
(* C1 *)

\* C1: after tree changes, each followed by an IndexAll run in which no
\* store or embedder call fails, the store holds for every scanned file
\* exactly the chunks that chunking its current content produces, and no
\* chunk for a path that is not in the scan.
C1_StoreMatchesTree ==
    (IndexAllReturned /\ err = "nil" /\ failures = 0)
        => \A p \in Paths :
              {ChunkInfoOf(c) : c \in ChunksOf(chunks, p)} = ExpectedChunks(p)

----------------------------------------------------------------------------
(* C2 *)

\* A step of an IndexAll run that follows an IndexAll run in which no call
\* failed.
AfterCleanRun == op = "IndexAll" /\ pc # "idle" /\ prev.clean

\* The step on which the running operation returns.
Returns == pc # "idle" /\ pc' = "idle"

\* C2: an IndexAll run on the tree that the previous IndexAll run scanned
\* (a run in which no call failed) makes no EmbedBatch call and leaves the
\* chunks and the documents of the store as they were.
C2_Idempotent ==
    [][(AfterCleanRun /\ prev.changed = {})
          => /\ chunks' = chunks
             /\ documents' = documents
             /\ run'.embedded = {}]_vars

\* The document stored for p, as a set (empty when there is none).
DocumentOf(ds, p) == IF HasDocument(ds, p) THEN {ds[p]} ELSE {}

\* The step changes neither the chunks nor the document of p.
Untouched(p) ==
    /\ ChunksOf(chunks', p) = ChunksOf(chunks, p)
    /\ DocumentOf(documents', p) = DocumentOf(documents, p)

----------------------------------------------------------------------------
(* C3 *)

\* C3: when exactly one file's content is modified between two IndexAll runs
\* (the first a run in which no call failed), the second run changes only
\* that file's chunks and document and calls EmbedBatch for no other file.
C3_OnlyModifiedFileTouched ==
    [][\A m \in Paths :
          (AfterCleanRun /\ prev.changed = {m} /\ prev.modified = {m})
              => /\ \A p \in Paths \ {m} : Untouched(p)
                 /\ run'.embedded \subseteq {m}]_vars

\* What C2 and C3 say does hold of runs in which no call has ever failed.
NominalRerun ==
    [][(AfterCleanRun /\ failures' = 0)
          => /\ prev.changed = {} => (chunks' = chunks /\ documents' = documents /\ run'.embedded = {})
             /\ \A m \in Paths : (prev.changed = {m} /\ prev.modified = {m})
                  => /\ \A p \in Paths \ {m} : Untouched(p)
                     /\ run'.embedded \subseteq {m}]_vars

----------------------------------------------------------------------------
(* C4 *)

\* C4: when a file indexed by an IndexAll run is removed from disk and
\* IndexAll runs again (no call failing in either run), afterwards the store
\* has no chunk and no document for that path, the run reports
\* FilesRemoved = 1, and the chunks and documents of every other file are
\* unchanged.
C4_RemovedFileLeavesStore ==
    [][\A d \in Paths :
          (AfterCleanRun /\ failures' = 0 /\ prev.changed = {d} /\ prev.deleted = {d})
              => /\ \A p \in Paths \ {d} : Untouched(p)
                 /\ Returns => /\ ChunksOf(chunks', d) = {}
                               /\ ~HasDocument(documents', d)
                               /\ stats'.FilesRemoved = 1]_vars

----------------------------------------------------------------------------
(* C5 *)

\* C5: IndexAll passes to RemoveFile only paths that ListDocuments returned and
\* that are absent from the scan, never a scanned path, and FilesRemoved
\* counts only such paths.
C5_RemovesOnlyStalePaths ==
    op = "IndexAll"
        => /\ run.removed \subseteq run.listed \ ScannedPaths
           /\ stats.FilesRemoved <= Cardinality(run.removed \ ScannedPaths)

----------------------------------------------------------------------------
(* C6, C7 *)

\* The store after an operation has returned.
Quiescent == pc = "idle"

\* C6: after any sequence of IndexAll, IndexFile and RemoveFile operations,
\* every chunk id in a stored Document's ChunkIDs is the id of a stored chunk
\* with the document's path.  (Already false when no call fails.)
C6_DocumentChunksExist ==
    (Quiescent /\ failures = 0)
        => \A p \in DOMAIN documents :
              \A id \in Range(documents[p].ChunkIDs) :
                 \E c \in chunks : c.ID = id /\ c.FilePath = documents[p].Path

\* C7: after any sequence of IndexAll, IndexFile and RemoveFile operations,
\* every stored chunk with path p has a stored Document with path p whose
\* ChunkIDs holds the chunk's id.
C7_NoOrphanChunk ==
    Quiescent
        => \A c \in chunks :
              /\ HasDocument(documents, c.FilePath)
              /\ c.ID \in Range(documents[c.FilePath].ChunkIDs)

----------------------------------------------------------------------------
(* C8 *)

\* C8: a search running during IndexFile on a changed file (one that had
\* chunks in the store) sees either all the chunks the file had when
\* IndexFile started or all its new chunks, each time with the document that
\* lists them.  (Already false when no call fails.)
C8_SearchSeesOldOrNew ==
    (seen.at # "none" /\ seen.changed /\ seen.old # {} /\ failures = 0)
        => /\ seen.ids \in {seen.old, seen.new}
           /\ seen.ids # {} => (seen.hasDoc /\ seen.ids = seen.docIds)

----------------------------------------------------------------------------
(* C9 *)

\* What C9 promises of a run in which the indexing of a file failed.
RunCompleted ==
    /\ err = "nil"
    /\ ScannedPaths = run.unchanged \cup run.indexed \cup run.failedFiles
    /\ run.listed \ ScannedPaths \subseteq run.removed
    /\ run.indexed \cap run.failedFiles = {}
    /\ stats.FilesIndexed = Cardinality(run.indexed)

----------------------------------------------------------------------------
(* C10 *)

StoreCalls ==
    {"ListDocuments", "GetDocument", "IF_DeleteByFile", "IF_SaveChunks",
     "IF_SaveDocument", "RM_DeleteByFile", "RM_DeleteDocument"}

\* C10: an IndexAll run in which a VectorStore call failed returns an error.
C10_StoreFailureIsFatal ==
    (IndexAllReturned /\ run.failed \cap StoreCalls # {}) => err = "error"

\* What C7 says does hold as long as no call has failed.
NominalNoOrphan == failures = 0 => C7_NoOrphanChunk

----------------------------------------------------------------------------
(* C11 *)

\* C11: every IndexAll run that returns without error (here: one that saved
\* chunks) has called VectorStore.Persist after its last index or removal
\* step and before returning.
C11_PersistBeforeReturn ==
    (IndexAllReturned /\ err = "nil" /\ run.saved > 0) => run.persisted

----------------------------------------------------------------------------
(* C12 *)

\* The step on which IndexFile returns a nil error to its caller.
IndexFileReturnsNil ==
    InIndexFile /\ cur' = NoFile /\ run'.failedFiles = run.failedFiles

\* C12: every IndexFile call that returns without error has saved the file's
\* Document with the file's current hash, whatever number of chunks the file
\* yields.
C12_DocumentSaved ==
    [][IndexFileReturnsNil
          => /\ HasDocument(documents', cur.Path)
             /\ documents'[cur.Path].Hash = cur.Hash]_vars

----------------------------------------------------------------------------
(* C13 *)

\* C13: when no call fails, IndexAll reports FilesIndexed equal to the number
\* of scanned files added or changed since the previous IndexAll run, and
\* ChunksCreated equal to the number of chunks saved in the run.
C13_StatsCountChanges ==
    [][(op = "IndexAll" /\ Returns /\ failures' = 0)
          => /\ stats'.FilesIndexed = Cardinality(prev.changed \cap ScannedPaths)
             /\ stats'.ChunksCreated = run'.saved]_vars

----------------------------------------------------------------------------
(* C14 *)

\* The rank of a path in lexicographic order.
PathIndex(p) == CHOOSE k \in 1..Len(PathOrder) : PathOrder[k] = p

\* C14: IndexAll removes stale paths in lexicographic order of path: the path
\* it passes to RemoveFile is the smallest of those left (no call failing).
C14_RemovalInPathOrder ==
    [][(pc = "range" /\ pc' = "RM_DeleteByFile" /\ failures' = 0)
          => \A q \in existingMap : PathIndex(path') <= PathIndex(q)]_vars

----------------------------------------------------------------------------
(* The search command (cli): strings, flags and collaborators *)

MaxCommands == 1
MaxProjects == 2

\* A string is a sequence of characters.
Slash == <<"/">>

\* strings.HasPrefix
HasPrefix(str, prefix) ==
    Len(prefix) <= Len(str) /\ SubSeq(str, 1, Len(prefix)) = prefix

\* The workspace of the configuration and the names of its projects; "pq"
\* starts with "p", and "wx" (another namespace of the same store) with "w".
WorkspaceName == <<"w">>
ProjectNames == {<<"p">>, <<"p", "q">>}

\* The lists of project names of length at most MaxProjects (a name may be
\* given twice).
ProjectLists == UNION {[1..n -> ProjectNames] : n \in 0..MaxProjects}

\* The values of --path: none, "s", "t" (under which nothing is indexed), "./s"
\* and "../s".
PathArgs == {<<>>, <<"s">>, <<"t">>, <<".", "/", "s">>, <<".", ".", "/", "s">>}

\* The queries: each ranks the indexed paths in its own order.
Queries == {1, 2}

\* The command lines.
CommandLines ==
    [query : Queries, searchJSON : BOOLEAN, searchTOON : BOOLEAN,
     searchCompact : BOOLEAN, searchWorkspace : {<<>>, WorkspaceName},
     searchProjects : ProjectLists, searchPath : PathArgs]

\* search.NormalizeProjectPathPrefix: a path that escapes the root is
\* rejected, a leading "./" is stripped, and a prefix names a directory.
NormalizeProjectPathPrefix(p) ==
    IF HasPrefix(p, <<".", ".">>) THEN [err |-> TRUE, path |-> <<>>]
    ELSE IF p = <<>> THEN [err |-> FALSE, path |-> <<>>]
    ELSE IF HasPrefix(p, <<".", "/">>)
         THEN [err |-> FALSE, path |-> SubSeq(p, 3, Len(p)) \o Slash]
         ELSE [err |-> FALSE, path |-> p \o Slash]

\* search.NormalizeWorkspacePathPrefix: the same for the path; the projects
\* it resolves are the ones given, or one found from the path.
NormalizeWorkspacePathPrefix(p, projects) ==
    {[err |-> NormalizeProjectPathPrefix(p).err,
      path |-> NormalizeProjectPathPrefix(p).path,
      projects |-> resolved] :
        resolved \in IF projects # <<>> THEN {projects}
                     ELSE {<<>>} \cup {<<name>> : name \in ProjectNames}}

\* The file paths of the chunks of the store the command opens: the project's
\* own, or the workspace's (namespaced workspace/project/path).
IndexedPaths(workspace) ==
    IF workspace = <<>>
    THEN {<<"f">>, <<"s", "/", "f">>}
    ELSE {<<"w", "/", "p", "/", "f">>, <<"w", "/", "p", "/", "s", "/", "f">>,
          <<"w", "/", "p", "q", "/", "f">>, <<"w", "x", "/", "p", "/", "f">>}

\* The rank a query gives to a path: the length of the path, taken from the
\* longest for one query and from the shortest for the other.
Rank(query, p) == IF query = 1 THEN Len(p) ELSE 10 - Len(p)

RECURSIVE Ranked(_, _)
\* The paths of a set, by decreasing rank (ranks within a set are distinct).
Ranked(query, ps) ==
    IF ps = {} THEN <<>>
    ELSE LET top == CHOOSE p \in ps : \A q \in ps : Rank(query, q) <= Rank(query, p)
         IN  <<[FilePath |-> top, Score |-> Rank(query, top)]>> \o Ranked(query, ps \ {top})

\* Searcher.Search on success: the chunks under the path prefix, by
\* non-increasing score, at most limit of them.
SearcherSearch(workspace, query, limit, pathPrefix) ==
    LET all == Ranked(query, {p \in IndexedPaths(workspace) : HasPrefix(p, pathPrefix)})
    IN  SubSeq(all, 1, IF Len(all) < limit THEN Len(all) ELSE limit)

\* The value of --limit (10 unless given): above the number of indexed paths
\* under any prefix.
searchLimit == 3

----------------------------------------------------------------------------
(* The search command: runSearch *)

\* InvalidFlags with a slip: --compact alone is let through.
InvalidFlags_CompactAccepted(c) ==
    \/ c.searchJSON /\ c.searchTOON
    \/ c.searchProjects # <<>> /\ c.searchWorkspace = <<>>

\* Line 278 (json and toon are mutually exclusive) and lines 328-336: the
\* flag combinations that end the command with an error.
InvalidFlags(c) ==
    \/ c.searchJSON /\ c.searchTOON
    \/ c.searchCompact /\ ~c.searchJSON /\ ~c.searchTOON
    \/ c.searchProjects # <<>> /\ c.searchWorkspace = <<>>

\* The command's process ends, or goes on to the step at.
Return(c, ret) == [c EXCEPT !.pc = "returned", !.ret = ret]

\* Lines 324-341: the command starts, checks its flags and picks its mode.
runSearch(c) ==
    /\ cmd.pc = "shell"
    /\ commands < MaxCommands
    /\ commands' = commands + 1
    /\ LET started == [NoCommand EXCEPT !.query = c.query,
                                        !.searchJSON = c.searchJSON,
                                        !.searchTOON = c.searchTOON,
                                        !.searchCompact = c.searchCompact,
                                        !.searchWorkspace = c.searchWorkspace,
                                        !.searchProjects = c.searchProjects,
                                        !.searchPath = c.searchPath]
       IN  cmd' = IF InvalidFlags(c) THEN Return(started, "error")
                  ELSE [started EXCEPT !.pc = IF c.searchWorkspace # <<>>
                                               THEN "ws_config" ELSE "setup"]
    /\ UNCHANGED <<statsVars, indexerVars, statsFile, recorders>>

\* What has been opened when the setup stops at a step (or at none).
Touched(failed) ==
    CASE failed = "FindProjectRoot" -> {}
      [] failed \in {"Load", "LoadWorkspaceConfig", "GetWorkspace",
                     "ValidateWorkspaceBackend"} -> {"config"}
      [] failed \in {"NewFromConfig", "NewFromWorkspaceConfig"} -> {"config", "embedder"}
      [] OTHER -> {"config", "embedder", "store"}

\* Lines 343-391: project root, configuration, embedder and store; the first
\* of them that fails ends the command with its error.
runSearch_Setup ==
    /\ cmd.pc = "setup"
    /\ \E failed \in {"none", "FindProjectRoot", "Load", "NewFromConfig", "Store"} :
          cmd' = IF failed = "none"
                 THEN [cmd EXCEPT !.touched = Touched(failed), !.pc = "normalize"]
                 ELSE Return([cmd EXCEPT !.touched = Touched(failed)], "error")
    /\ UNCHANGED <<statsVars, indexerVars, statsFile, recorders, commands>>

\* InvalidPath with a slip: the error of the normalization is dropped.
InvalidPath_Ignored(n) == FALSE

\* Lines 397-399 and 683-685: the normalization returned an error.
InvalidPath(n) == n.err

\* Lines 396-399: the --path value is normalized, or the command returns.
runSearch_NormalizePath ==
    /\ cmd.pc = "normalize"
    /\ LET n == NormalizeProjectPathPrefix(cmd.searchPath)
       IN  cmd' = IF InvalidPath(n)
                  THEN Return([cmd EXCEPT !.pathRejected = n.err], "error")
                  ELSE [cmd EXCEPT !.pathRejected = n.err,
                                   !.normalizedPath = n.path,
                                   !.pc = "search"]
    /\ UNCHANGED <<statsVars, indexerVars, statsFile, recorders, commands>>

\* Lines 403-411 and 745-753, with 605-621: what the command returns when
\* Searcher.Search failed.  outputSearchErrorJSON prints the error and
\* returns nil; outputSearchErrorTOON does too unless the encoding fails.
SearchErrorReturn(c, encoded) ==
    IF c.searchJSON THEN "nil"
    ELSE IF c.searchTOON THEN (IF encoded THEN "nil" ELSE "error")
    ELSE "error"

\* Lines 401-403: Searcher.Search returns results.
runSearch_Search ==
    /\ cmd.pc = "search"
    /\ LET found == SearcherSearch(<<>>, cmd.query, searchLimit, cmd.normalizedPath)
       IN  cmd' = [cmd EXCEPT !.searched = Append(@, cmd.normalizedPath),
                              !.found = found,
                              !.results = found,
                              !.pc = "output"]
    /\ UNCHANGED <<statsVars, indexerVars, statsFile, recorders, commands>>

\* Lines 401-411: Searcher.Search fails (embedder or store).
runSearch_SearchErr ==
    /\ cmd.pc = "search"
    /\ \E encoded \in BOOLEAN :
          cmd' = Return([cmd EXCEPT !.searched = Append(@, cmd.normalizedPath),
                                    !.searchErr = TRUE],
                        SearchErrorReturn(cmd, encoded))
    /\ UNCHANGED <<statsVars, indexerVars, statsFile, recorders, commands>>

\* Lines 489-497: outputModeFromFlags.
outputModeFromFlags(jsonFlag, toonFlag, compactFlag) ==
    IF compactFlag THEN "compact" ELSE IF toonFlag THEN "toon" ELSE "full"

\* stats package: the constants of the grep-equivalent estimate.
GrepExpansionFactor == 3
DefaultChunkTokens == 512
MinGrepTokens == 50

\* GrepEquivalentTokens with a slip: no floor for an empty result.
GrepEquivalentTokens_NoFloor(resultCount) ==
    resultCount * DefaultChunkTokens * GrepExpansionFactor

\* stats.GrepEquivalentTokens: what a grep workflow would have cost.
GrepEquivalentTokens(resultCount) ==
    IF resultCount = 0
    THEN MinGrepTokens
    ELSE resultCount * DefaultChunkTokens * GrepExpansionFactor

\* Lines 500-509: the entry recordSearchStats hands to its goroutine (its
\* Timestamp and its OutputTokens, an estimate from the printed text, are left
\* out: nothing here depends on them).
recordSearchStats(id, outputMode, resultCount) ==
    [Command |-> id, CommandType |-> "search", OutputMode |-> outputMode,
     ResultCount |-> resultCount, GrepTokens |-> GrepEquivalentTokens(resultCount)]

\* Lines 413-486: the results are encoded (JSON and TOON encoding can fail)
\* and printed, recordSearchStats starts its goroutine, the command returns.
runSearch_Output ==
    /\ cmd.pc = "output"
    /\ \E encoded \in BOOLEAN :
          IF (cmd.searchJSON \/ cmd.searchTOON) /\ ~encoded
          THEN /\ cmd' = Return(cmd, "error")
               /\ UNCHANGED recorders
          ELSE /\ cmd' = Return([cmd EXCEPT !.printed = cmd.results, !.spawned = @ + 1],
                                "nil")
               /\ recorders' = recorders \cup
                    {recordSearchStats(commands,
                        IF cmd.searchJSON \/ cmd.searchTOON
                        THEN outputModeFromFlags(cmd.searchJSON, cmd.searchTOON,
                                                 cmd.searchCompact)
                        ELSE "full",
                        Len(cmd.results))}
    /\ UNCHANGED <<statsVars, indexerVars, statsFile, commands>>

\* recordSearchStats, lines 510-514, and Recorder.Record: the goroutine runs;
\* the entry is appended unless its context is done or the write fails (the
\* error is discarded).
Record ==
    /\ \E e \in recorders, written \in BOOLEAN :
          /\ recorders' = recorders \ {e}
          /\ statsFile' = IF written THEN Append(statsFile, e) ELSE statsFile
          /\ cmd' = [cmd EXCEPT !.appended = IF written THEN @ + 1 ELSE @]
    /\ UNCHANGED <<statsVars, indexerVars, commands>>

\* The process ends once the command has returned: goroutines that have not
\* run are lost.
ProcessExit ==
    /\ cmd.pc = "returned"
    /\ cmd' = [cmd EXCEPT !.pc = "exited"]
    /\ recorders' = {}
    /\ UNCHANGED <<statsVars, indexerVars, statsFile, commands>>

\* Back at the shell: nothing of the ended process is left but the stats file.
Shell ==
    /\ cmd.pc = "exited"
    /\ cmd' = NoCommand
    /\ UNCHANGED <<statsVars, indexerVars, statsFile, recorders, commands>>

----------------------------------------------------------------------------
(* The search command: runWorkspaceSearch *)

\* Lines 668-680: the workspace configuration and the workspace.
runWorkspaceSearch_Config ==
    /\ cmd.pc = "ws_config"
    /\ \E failed \in {"none", "LoadWorkspaceConfig", "GetWorkspace"} :
          cmd' = IF failed = "none"
                 THEN [cmd EXCEPT !.touched = Touched(failed), !.pc = "ws_normalize"]
                 ELSE Return([cmd EXCEPT !.touched = Touched(failed)], "error")
    /\ UNCHANGED <<statsVars, indexerVars, statsFile, recorders, commands>>

\* Lines 682-685: the --path value and the projects are normalized, or the
\* command returns.
runWorkspaceSearch_NormalizePath ==
    /\ cmd.pc = "ws_normalize"
    /\ \E n \in NormalizeWorkspacePathPrefix(cmd.searchPath, cmd.searchProjects) :
          cmd' = IF InvalidPath(n)
                 THEN Return([cmd EXCEPT !.pathRejected = n.err], "error")
                 ELSE [cmd EXCEPT !.pathRejected = n.err,
                                  !.normalizedPath = n.path,
                                  !.resolvedProjects = n.projects,
                                  !.pc = "ws_setup"]
    /\ UNCHANGED <<statsVars, indexerVars, statsFile, recorders, commands>>

\* Lines 687-721: backend check, embedder and store.
runWorkspaceSearch_Setup ==
    /\ cmd.pc = "ws_setup"
    /\ \E failed \in {"none", "ValidateWorkspaceBackend", "NewFromWorkspaceConfig", "Store"} :
          cmd' = IF failed = "none"
                 THEN [cmd EXCEPT !.touched = Touched(failed), !.pc = "ws_search"]
                 ELSE Return([cmd EXCEPT !.touched = Touched(failed)], "error")
    /\ UNCHANGED <<statsVars, indexerVars, statsFile, recorders, commands>>

\* fullPathPrefix with a slip: the project is pushed down whenever one is resolved.
fullPathPrefix_AnyProject(name, resolvedProjects, normalizedPath) ==
    name \o Slash
         \o (IF Len(resolvedProjects) >= 1 THEN resolvedProjects[1] \o Slash ELSE <<>>)
         \o normalizedPath

\* Lines 730-742: the path prefix of the store query.
fullPathPrefix(name, resolvedProjects, normalizedPath) ==
    name \o Slash
         \o (IF Len(resolvedProjects) = 1 THEN resolvedProjects[1] \o Slash ELSE <<>>)
         \o normalizedPath

\* Lines 744-745: Searcher.Search returns results.
runWorkspaceSearch_Search ==
    /\ cmd.pc = "ws_search"
    /\ LET prefix == fullPathPrefix(cmd.searchWorkspace, cmd.resolvedProjects,
                                    cmd.normalizedPath)
           found == SearcherSearch(cmd.searchWorkspace, cmd.query, searchLimit, prefix)
       IN  cmd' = [cmd EXCEPT !.searched = Append(@, prefix),
                              !.found = found,
                              !.pc = "ws_output"]
    /\ UNCHANGED <<statsVars, indexerVars, statsFile, recorders, commands>>

\* Lines 744-754: Searcher.Search fails.
runWorkspaceSearch_SearchErr ==
    /\ cmd.pc = "ws_search"
    /\ \E encoded \in BOOLEAN :
          cmd' = Return([cmd EXCEPT !.searched =
                            Append(@, fullPathPrefix(cmd.searchWorkspace,
                                                     cmd.resolvedProjects,
                                                     cmd.normalizedPath)),
                                    !.searchErr = TRUE],
                        SearchErrorReturn(cmd, encoded))
    /\ UNCHANGED <<statsVars, indexerVars, statsFile, recorders, commands>>

RECURSIVE KeepResult_NoBreak(_, _, _, _)
\* KeepResult with a slip: the loop over the projects has no break.
KeepResult_NoBreak(r, name, resolvedProjects, k) ==
    IF k > Len(resolvedProjects) THEN <<>>
    ELSE IF HasPrefix(r.FilePath, name \o Slash \o resolvedProjects[k] \o Slash)
         THEN <<r>> \o KeepResult_NoBreak(r, name, resolvedProjects, k + 1)
         ELSE KeepResult_NoBreak(r, name, resolvedProjects, k + 1)

RECURSIVE KeepResult(_, _, _, _)
\* Lines 761-767: the loop over the projects, from the k-th: the result is
\* appended at the first project whose prefix it has, and the loop breaks.
KeepResult(r, name, resolvedProjects, k) ==
    IF k > Len(resolvedProjects) THEN <<>>
    ELSE IF HasPrefix(r.FilePath, name \o Slash \o resolvedProjects[k] \o Slash)
         THEN <<r>>
         ELSE KeepResult(r, name, resolvedProjects, k + 1)

RECURSIVE FilterFrom(_, _, _, _)
\* Lines 759-769: the loop over the results, from the j-th.
FilterFrom(results, name, resolvedProjects, j) ==
    IF j > Len(results) THEN <<>>
    ELSE KeepResult(results[j], name, resolvedProjects, 1)
            \o FilterFrom(results, name, resolvedProjects, j + 1)

\* Lines 756-770: the results filtered by project, when projects are resolved.
filteredResults(results, name, resolvedProjects) ==
    IF Len(resolvedProjects) > 0
    THEN FilterFrom(results, name, resolvedProjects, 1)
    ELSE results

\* Lines 756-839: the results are filtered, encoded and printed, and the
\* command returns; no stats entry is recorded in workspace mode.
runWorkspaceSearch_Output ==
    /\ cmd.pc = "ws_output"
    /\ \E encoded \in BOOLEAN :
          LET results == filteredResults(cmd.found, cmd.searchWorkspace,
                                         cmd.resolvedProjects)
          IN  cmd' = IF (cmd.searchJSON \/ cmd.searchTOON) /\ ~encoded
                     THEN Return([cmd EXCEPT !.results = results], "error")
                     ELSE Return([cmd EXCEPT !.results = results, !.printed = results],
                                 "nil")
    /\ UNCHANGED <<statsVars, indexerVars, statsFile, recorders, commands>>

----------------------------------------------------------------------------

NextSearch ==
    \/ \E c \in CommandLines : runSearch(c)
    \/ runSearch_Setup
    \/ runSearch_NormalizePath
    \/ runSearch_Search
    \/ runSearch_SearchErr
    \/ runSearch_Output
    \/ runWorkspaceSearch_Config
    \/ runWorkspaceSearch_NormalizePath
    \/ runWorkspaceSearch_Setup
    \/ runWorkspaceSearch_Search
    \/ runWorkspaceSearch_SearchErr
    \/ runWorkspaceSearch_Output
    \/ Record
    \/ ProcessExit
    \/ Shell

\* The search command against an index that no indexer is changing.
InitSearch ==
    /\ disk = << >>
    /\ IndexerInit
    /\ CliInit
    /\ StatsInit

SpecSearch == InitSearch /\ [][NextSearch]_vars

----------------------------------------------------------------------------
(* Vocabulary of the search command's properties *)

\* The command has returned to its caller.
CommandReturned == cmd.pc \in {"returned", "exited"}

InWorkspaceMode == cmd.searchWorkspace # <<>>

\* No stats entry was handed to a recorder, and none was appended.
NoStatsEntry == cmd.spawned = 0 /\ cmd.appended = 0

----------------------------------------------------------------------------
(* C15 *)

\* C15: when Searcher.Search returns an error, the search command returns an
\* error to its caller, in every output mode and in project and workspace
\* mode, and records no stats entry.
C15_SearchErrorSurfaced ==
    (CommandReturned /\ cmd.searchErr) => (cmd.ret = "error" /\ NoStatsEntry)

----------------------------------------------------------------------------
(* C16 *)

\* C16: when the --path value is rejected by the path normalization, the
\* command returns an error without calling Searcher.Search and without
\* recording a stats entry, in project mode and in workspace mode.
C16_RejectedPathStops ==
    (CommandReturned /\ cmd.pathRejected)
        => (cmd.ret = "error" /\ cmd.searched = <<>> /\ NoStatsEntry)

\* A workspace search given "../s" has ended.
C16_Witness ==
    /\ cmd.pc = "exited"
    /\ InWorkspaceMode
    /\ cmd.searchPath = <<".", ".", "/", "s">>
    /\ cmd.pathRejected
    /\ cmd.ret = "error"

----------------------------------------------------------------------------
(* C17 *)

\* The result's file path starts with <workspace>/<project>/ for a resolved
\* project.
InResolvedProject(r) ==
    \E k \in 1..Len(cmd.resolvedProjects) :
        HasPrefix(r.FilePath,
                  cmd.searchWorkspace \o Slash \o cmd.resolvedProjects[k] \o Slash)

\* C17: in a workspace search with a non-empty list of resolved projects, the
\* results output are exactly the searcher's results whose file path starts
\* with <workspace>/<project>/ for a resolved project, each once and in the
\* searcher's order, so by non-increasing score.
C17_FilteredByProject ==
    (CommandReturned /\ InWorkspaceMode /\ cmd.ret = "nil" /\ ~cmd.searchErr
        /\ Len(cmd.resolvedProjects) > 0)
        => /\ cmd.printed = SelectSeq(cmd.found, InResolvedProject)
           /\ \A k \in 1..Len(cmd.printed) : InResolvedProject(cmd.printed[k])
           /\ \A k \in 1..(Len(cmd.printed) - 1) :
                 cmd.printed[k].Score >= cmd.printed[k + 1].Score

\* A workspace search for the same project given twice has output two results
\* and dropped one of another project.
C17_Witness ==
    /\ CommandReturned /\ InWorkspaceMode /\ cmd.ret = "nil"
    /\ cmd.resolvedProjects = <<<<"p">>, <<"p">>>>
    /\ Len(cmd.found) = 3
    /\ Len(cmd.printed) = 2

----------------------------------------------------------------------------
(* C18 *)

\* C18: in workspace search the path prefix passed to Searcher.Search is
\* <workspace>/, then <project>/ if and only if exactly one project is
\* resolved, then the normalized --path; it starts with <workspace>/, and
\* every result found has a file path under <workspace>/.
C18_PrefixInWorkspace ==
    (InWorkspaceMode /\ cmd.searched # <<>>)
        => /\ Len(cmd.searched) = 1
           /\ HasPrefix(cmd.searched[1], cmd.searchWorkspace \o Slash)
           /\ Len(cmd.resolvedProjects) = 1
                 => cmd.searched[1] = cmd.searchWorkspace \o Slash
                                         \o cmd.resolvedProjects[1] \o Slash
                                         \o cmd.normalizedPath
           /\ Len(cmd.resolvedProjects) # 1
                 => cmd.searched[1] = cmd.searchWorkspace \o Slash \o cmd.normalizedPath
           /\ \A k \in 1..Len(cmd.found) :
                 HasPrefix(cmd.found[k].FilePath, cmd.searchWorkspace \o Slash)

\* A workspace search with two projects and a --path has found a result.
C18_Witness ==
    /\ InWorkspaceMode
    /\ Len(cmd.resolvedProjects) = 2
    /\ cmd.normalizedPath = <<"s", "/">>
    /\ cmd.searched = <<<<"w", "/", "s", "/">>>>
    /\ cmd.pc = "ws_output"

----------------------------------------------------------------------------
(* C19 *)

\* --compact without --json or --toon, or --project without --workspace.
InvalidCombination ==
    \/ cmd.searchCompact /\ ~cmd.searchJSON /\ ~cmd.searchTOON
    \/ cmd.searchProjects # <<>> /\ ~InWorkspaceMode

\* C19: the search command rejects --compact without --json or --toon, and
\* --project without --workspace, before touching configuration, embedder or
\* store: it returns an error, no search is made and no stats entry recorded.
C19_InvalidFlagsRejected ==
    (cmd.pc # "shell" /\ InvalidCombination)
        => /\ CommandReturned
           /\ cmd.ret = "error"
           /\ cmd.touched = {}
           /\ cmd.searched = <<>>
           /\ NoStatsEntry

\* A command given --compact alone has ended with an error.
C19_Witness ==
    /\ cmd.pc = "exited"
    /\ cmd.searchCompact /\ ~cmd.searchJSON /\ ~cmd.searchTOON
    /\ cmd.searchProjects = <<>>
    /\ cmd.ret = "error"

----------------------------------------------------------------------------
(* C20 *)

\* C20: every search command that completes successfully (its search did not
\* fail and it returned nil), in project or workspace mode and in any output
\* mode, has appended exactly one entry to the stats file when its process
\* ends.
C20_OneStatsEntry ==
    (cmd.pc = "exited" /\ cmd.ret = "nil" /\ ~cmd.searchErr) => cmd.appended = 1

\* The part of C20 that does not depend on when the goroutine runs: a
\* successful workspace search hands one entry to a recorder.  (It hands none.)
WorkspaceSearchRecorded ==
    (cmd.pc = "exited" /\ cmd.ret = "nil" /\ ~cmd.searchErr /\ InWorkspaceMode)
        => cmd.spawned = 1

----------------------------------------------------------------------------
(* The stats package: strings, entries and their JSON lines *)

MaxRecords == 2

\* bufio.MaxScanTokenSize, the longest line a bufio.Scanner returns.
MaxScanTokenSize == 65536

\* A string is a sequence of characters.  Three of them are special: a byte
\* that is not valid UTF-8, the replacement character U+FFFD that
\* encoding/json writes in its place, and a run of MaxScanTokenSize letters.
InvalidByte == "\\xff"
ReplacementChar == "U+FFFD"
LongRun == "x...x"

\* The length of a string in bytes.
ByteLen(ch) ==
    IF ch = LongRun THEN MaxScanTokenSize ELSE IF ch = ReplacementChar THEN 3 ELSE 1

RECURSIVE StrLen(_)
StrLen(str) == IF str = <<>> THEN 0 ELSE ByteLen(Head(str)) + StrLen(Tail(str))

\* strconv: an int in decimal and back.
DigitChars == <<"0", "1", "2", "3", "4", "5", "6", "7", "8", "9">>

RECURSIVE FormatNat(_)
FormatNat(n) ==
    IF n < 10
    THEN <<DigitChars[n + 1]>>
    ELSE FormatNat(n \div 10) \o <<DigitChars[(n % 10) + 1]>>

FormatInt(n) == IF n < 0 THEN <<"-">> \o FormatNat(0 - n) ELSE FormatNat(n)

DigitValue(ch) == (CHOOSE d \in 1..10 : DigitChars[d] = ch) - 1

RECURSIVE ParseNat(_, _)
ParseNat(digits, acc) ==
    IF digits = <<>>
    THEN acc
    ELSE ParseNat(Tail(digits), acc * 10 + DigitValue(Head(digits)))

ParseInt(text) ==
    IF Head(text) = "-" THEN 0 - ParseNat(Tail(text), 0) ELSE ParseNat(text, 0)

\* encoding/json, a string value: quotes and backslashes are escaped and an
\* invalid byte is written as the escape of U+FFFD.
EncodeChar(ch) ==
    IF ch = "\"" THEN <<"\\", "\"">>
    ELSE IF ch = "\\" THEN <<"\\", "\\">>
    ELSE IF ch = InvalidByte THEN <<"\\", "u", "f", "f", "f", "d">>
    ELSE <<ch>>

RECURSIVE EncodeString(_)
EncodeString(str) ==
    IF str = <<>> THEN <<>> ELSE EncodeChar(Head(str)) \o EncodeString(Tail(str))

\* encoding/json, reading a string value back: escapes are resolved.
RECURSIVE DecodeString(_)
DecodeString(text) ==
    IF text = <<>>
    THEN <<>>
    ELSE IF Head(text) = "\\"
         THEN IF text[2] = "u"
              THEN <<IF SubSeq(text, 3, 6) = <<"f", "f", "f", "d">>
                     THEN ReplacementChar
                     ELSE "?">> \o DecodeString(SubSeq(text, 7, Len(text)))
              ELSE <<text[2]>> \o DecodeString(SubSeq(text, 3, Len(text)))
         ELSE <<Head(text)>> \o DecodeString(Tail(text))

\* Timestamps (RFC3339, UTC) of two days, and the strings of the entries.
Day21 == <<"2", "0", "2", "6", "-", "0", "2", "-", "2", "1">>
Day22 == <<"2", "0", "2", "6", "-", "0", "2", "-", "2", "2">>
Clock == <<"T", "1", "0", ":", "0", "0", ":", "0", "0", "Z">>
SearchType == <<"s", "e", "a", "r", "c", "h">>
TraceCallersType == <<"t", "r", "a", "c", "e", "-", "c", "a", "l", "l", "e", "r", "s">>
TraceCalleesType == <<"t", "r", "a", "c", "e", "-", "c", "a", "l", "l", "e", "e", "s">>
TraceGraphType == <<"t", "r", "a", "c", "e", "-", "g", "r", "a", "p", "h">>
FullMode == <<"f", "u", "l", "l">>
CompactMode == <<"c", "o", "m", "p", "a", "c", "t">>
ToonMode == <<"t", "o", "o", "n">>

NewEntry(ts, ct, om, rc, ot, gt) ==
    [Timestamp |-> ts, CommandType |-> ct, OutputMode |-> om, ResultCount |-> rc,
     OutputTokens |-> ot, GrepTokens |-> gt]

\* The entries handed to Record: two searches of the same day, a search of
\* the next day whose output is larger than the grep estimate, an entry
\* with a quote in a string, one with an invalid byte and one with a string of
\* MaxScanTokenSize bytes.
StatsEntries ==
    {NewEntry(Day21 \o Clock, SearchType, FullMode, 2, 100, GrepEquivalentTokens(2)),
     NewEntry(Day21 \o Clock, TraceCallersType, CompactMode, 1, 40, GrepEquivalentTokens(1)),
     NewEntry(Day22 \o Clock, SearchType, FullMode, 1, 2000, GrepEquivalentTokens(1)),
     NewEntry(Day22 \o Clock, <<"a", "\"", "\\">>, FullMode, 1, 10, 0),
     NewEntry(Day22 \o Clock, <<InvalidByte>>, FullMode, 1, 10, 20),
     NewEntry(Day22 \o Clock, <<LongRun>>, FullMode, 1, 10, 20)}

\* json.Marshal of an Entry: the line Record appends (without its newline).
Marshal(e) ==
    [kind         |-> "object",
     Timestamp    |-> EncodeString(e.Timestamp),
     CommandType  |-> EncodeString(e.CommandType),
     OutputMode   |-> EncodeString(e.OutputMode),
     ResultCount  |-> FormatInt(e.ResultCount),
     OutputTokens |-> FormatInt(e.OutputTokens),
     GrepTokens   |-> FormatInt(e.GrepTokens)]

\* A line that is not an entry: any other text.
RawLine(text) == [kind |-> "raw", text |-> text]

\* The length of a line in bytes; 99 is the length of the keys and of the
\* punctuation of an encoded Entry.
LineLen(line) ==
    IF line.kind = "raw"
    THEN StrLen(line.text)
    ELSE 99 + StrLen(line.Timestamp) + StrLen(line.CommandType) + StrLen(line.OutputMode)
            + Len(line.ResultCount) + Len(line.OutputTokens) + Len(line.GrepTokens)

\* strings.TrimSpace(line) == "".
IsBlank(line) == line.kind = "raw" /\ \A k \in 1..Len(line.text) : line.text[k] \in {" ", "\t"}

\* json.Unmarshal succeeds on the line.
WellFormed(line) == line.kind = "object"

\* json.Unmarshal of a well-formed line.
Unmarshal(line) ==
    NewEntry(DecodeString(line.Timestamp), DecodeString(line.CommandType),
             DecodeString(line.OutputMode), ParseInt(line.ResultCount),
             ParseInt(line.OutputTokens), ParseInt(line.GrepTokens))

----------------------------------------------------------------------------
(* The stats package: ReadAll, Summarize, HistoryByDay *)

\* Lines that are not entries: broken JSON, spaces only, and broken JSON of
\* MaxScanTokenSize bytes.
CorruptedLine == RawLine(<<"{", "\"", "t", "i">>)
BlankLine == RawLine(<<" ", " ">>)
OverlongLine == RawLine(<<LongRun>>)

\* What the file at statsPath holds when the processes start: it is
\* missing, it cannot be opened, it is empty, or it holds entries between
\* lines that are not entries.
StatsFiles ==
    {AbsentFile,
     [state |-> "denied", lines |-> <<>>],
     [state |-> "present", lines |-> <<>>],
     [state |-> "present",
      lines |-> <<Marshal(NewEntry(Day21 \o Clock, SearchType, FullMode, 2, 100, 3072)),
                  CorruptedLine, BlankLine,
                  Marshal(NewEntry(Day22 \o Clock, SearchType, CompactMode, 1, 40, 1536))>>],
     [state |-> "present",
      lines |-> <<Marshal(NewEntry(Day21 \o Clock, SearchType, FullMode, 2, 100, 3072)),
                  OverlongLine,
                  Marshal(NewEntry(Day22 \o Clock, SearchType, CompactMode, 1, 40, 1536))>>]}

\* ReadAll with a slip: any failure to open the file reads as an empty file.
OpenFails_OnlyMissing(file) == FALSE

\* Lines 18-25 of ReadAll: os.Open fails with an error other than ErrNotExist.
OpenFails(file) == file.state = "denied"

\* Lines 27-47 of ReadAll: the scanner loop from line k on.  A line the
\* scanner cannot return ends the loop with scanner.Err() set; blank lines
\* and lines that do not unmarshal are skipped.
RECURSIVE ScanLines(_, _, _)
ScanLines(lines, k, entries) ==
    IF k > Len(lines)
    THEN [entries |-> entries, err |-> FALSE]
    ELSE IF LineLen(lines[k]) >= MaxScanTokenSize
         THEN [entries |-> entries, err |-> TRUE]
         ELSE IF IsBlank(lines[k]) \/ ~WellFormed(lines[k])
              THEN ScanLines(lines, k + 1, entries)
              ELSE ScanLines(lines, k + 1, Append(entries, Unmarshal(lines[k])))

\* stats.ReadAll: the entries and whether an error is returned.
ReadAll(file) ==
    IF file.state = "absent"
    THEN [entries |-> <<>>, err |-> FALSE]
    ELSE IF OpenFails(file)
         THEN [entries |-> <<>>, err |-> TRUE]
         ELSE ScanLines(file.lines, 1, <<>>)

\* The embedder providers of a configuration.
cloudProviders == {"openai", "openrouter", "synthetic"}
Providers == cloudProviders \cup {"ollama", "lmstudio", "", "OpenAI", "voyage"}

\* IsCloudProvider with a slip: ollama counts as a cloud provider.
IsCloudProvider_Ollama(provider) == provider \in cloudProviders \cup {"ollama"}

\* stats.IsCloudProvider.
IsCloudProvider(provider) == provider \in cloudProviders

\* USD per million tokens.
CostPerMTokenUSD == 5

RECURSIVE SumOf(_, _)
SumOf(entries, field) ==
    IF entries = <<>> THEN 0 ELSE Head(entries)[field] + SumOf(Tail(entries), field)

CountOf(entries, field, value) ==
    Cardinality({k \in 1..Len(entries) : entries[k][field] = value})

\* A float64 quotient, kept as a fraction: only its sign and whether it is
\* zero are looked at.
Fraction(num, den) == [num |-> num, den |-> den]
IsNegative(f) == (f.num < 0 /\ f.den > 0) \/ (f.num > 0 /\ f.den < 0)
IsZero(f) == f.num = 0

\* Summarize with a slip: the total counts the results, not the entries.
TotalQueries_Results(entries) == SumOf(entries, "ResultCount")

TotalQueries(entries) == Len(entries)

\* stats.Summarize.  CostSavedUSD is <<>> for nil and <<micro-dollars>> else.
Summarize(entries, provider) ==
    LET outputTokens == SumOf(entries, "OutputTokens")
        grepTokens == SumOf(entries, "GrepTokens")
        tokensSaved == grepTokens - outputTokens
    IN  [TotalQueries  |-> TotalQueries(entries),
         OutputTokens  |-> outputTokens,
         GrepTokens    |-> grepTokens,
         TokensSaved   |-> tokensSaved,
         SavingsPct    |-> IF grepTokens > 0
                           THEN Fraction(tokensSaved * 100, grepTokens)
                           ELSE Fraction(0, 1),
         ByCommandType |-> [t \in {SearchType, TraceCallersType, TraceCalleesType,
                                    TraceGraphType}
                                       \cup {entries[k].CommandType : k \in 1..Len(entries)}
                               |-> CountOf(entries, "CommandType", t)],
         ByOutputMode  |-> [m \in {FullMode, CompactMode, ToonMode}
                                       \cup {entries[k].OutputMode : k \in 1..Len(entries)}
                               |-> CountOf(entries, "OutputMode", m)],
         CostSavedUSD  |-> IF IsCloudProvider(provider)
                           THEN <<tokensSaved * CostPerMTokenUSD>>
                           ELSE <<>>]

\* The order of the bytes that occur in a date.
ByteOrder == <<"-", "0", "1", "2", "3", "4", "5", "6", "7", "8", "9", ":", "T", "Z",
               "k", "n", "o", "u", "w">>
Ord(ch) == CHOOSE k \in 1..Len(ByteOrder) : ByteOrder[k] = ch

\* Go's a > b on strings.
RECURSIVE StringGreater(_, _)
StringGreater(a, b) ==
    IF a = <<>> THEN FALSE
    ELSE IF b = <<>> THEN TRUE
    ELSE IF Head(a) = Head(b) THEN StringGreater(Tail(a), Tail(b))
    ELSE Ord(Head(a)) > Ord(Head(b))

Unknown == <<"u", "n", "k", "n", "o", "w", "n">>

\* Lines 93-96 of HistoryByDay: the day of an entry.
DayOf_Whole(e) == e.Timestamp

DayOf(e) == IF Len(e.Timestamp) >= 10 THEN SubSeq(e.Timestamp, 1, 10) ELSE Unknown

EntriesOfDay(entries, date) == SelectSeq(entries, LAMBDA e : DayOf(e) = date)

\* sort.Slice by descending date, the dates being distinct.
RECURSIVE SortDescending(_)
SortDescending(days) ==
    IF days = {}
    THEN <<>>
    ELSE LET first == CHOOSE d \in days :
                          \A o \in days \ {d} : StringGreater(d.Date, o.Date)
         IN  <<first>> \o SortDescending(days \ {first})

\* stats.HistoryByDay.
HistoryByDay(entries) ==
    LET dates == {DayOf(entries[k]) : k \in 1..Len(entries)}
        byDate == {[Date         |-> date,
                    QueryCount   |-> Len(EntriesOfDay(entries, date)),
                    OutputTokens |-> SumOf(EntriesOfDay(entries, date), "OutputTokens"),
                    GrepTokens   |-> SumOf(EntriesOfDay(entries, date), "GrepTokens"),
                    TokensSaved  |-> SumOf(EntriesOfDay(entries, date), "GrepTokens")
                                       - SumOf(EntriesOfDay(entries, date), "OutputTokens")]
                   : date \in dates}
    IN  SortDescending(byDate)

----------------------------------------------------------------------------
(* The stats package: Recorder.Record, one step per system call *)

OtherActive(p) == \E q \in RecorderProcs \ {p} : procs[q].pc # "idle"

\* Lines 28-39: a process calls Record.  With a cancelled context the call
\* returns ctx.Err() at once; otherwise the entry is marshalled.
Record_Begin(p, e) ==
    /\ reader.pc = "none"
    /\ procs[p].pc = "idle"
    /\ history.records < MaxRecords
    /\ \E done \in BOOLEAN :
          /\ history' = [history EXCEPT !.records = @ + 1,
                                        !.overlap = @ \/ OtherActive(p)]
          /\ procs' = [procs EXCEPT ![p] =
                IF done
                THEN [pc |-> "return", ctx |-> "done", e |-> e, line |-> <<>>,
                      locked |-> FALSE, ret |-> "ctx"]
                ELSE [pc |-> "OpenLock", ctx |-> "live", e |-> e, line |-> Marshal(e),
                      locked |-> FALSE, ret |-> "none"]]
    /\ UNCHANGED <<indexerVars, cliVars, statsPath, flock, reader>>

\* Lines 41-46: the lock file is opened; when that fails the line is
\* appended without the lock.
Record_OpenLock(p) ==
    /\ procs[p].pc = "OpenLock"
    /\ \E opened \in BOOLEAN :
          /\ procs' = [procs EXCEPT ![p].pc = IF opened THEN "flockExclusive"
                                                         ELSE "appendLine"]
          /\ history' = [history EXCEPT !.lockFailed = @ \/ ~opened]
    /\ UNCHANGED <<indexerVars, cliVars, statsPath, flock, reader>>

\* The context of the call (100 ms in recordSearchStats) ends while Record
\* is waiting for the lock.
Context_Done(p) ==
    /\ procs[p].pc = "flockExclusive"
    /\ procs[p].ctx = "live"
    /\ procs' = [procs EXCEPT ![p].ctx = "done"]
    /\ UNCHANGED <<indexerVars, cliVars, statsPath, flock, history, reader>>

\* flock(LOCK_EX) / LockFileEx: granted when no process holds the lock.
LockFree(held) == held = {}

\* Lines 48-51: flockExclusive blocks until the lock is free and takes it.
Record_Flock(p) ==
    /\ procs[p].pc = "flockExclusive"
    /\ LockFree(flock)
    /\ flock' = flock \cup {p}
    /\ procs' = [procs EXCEPT ![p].pc = "appendLine", ![p].locked = TRUE]
    /\ UNCHANGED <<indexerVars, cliVars, statsPath, history, reader>>

\* Lines 48-50: flockExclusive returns an error; the line is appended without
\* the lock.
Record_FlockErr(p) ==
    /\ procs[p].pc = "flockExclusive"
    /\ procs' = [procs EXCEPT ![p].pc = "appendLine"]
    /\ history' = [history EXCEPT !.lockFailed = TRUE]
    /\ UNCHANGED <<indexerVars, cliVars, statsPath, flock, reader>>

\* Lines 57-61: appendLine opens the stats file for appending, creating it
\* when it is missing.
appendLine_OpenFile(p) ==
    /\ procs[p].pc = "appendLine"
    /\ \E opened \in BOOLEAN :
          IF opened /\ statsPath.state # "denied"
          THEN /\ statsPath' = [statsPath EXCEPT !.state = "present"]
               /\ procs' = [procs EXCEPT ![p].pc = "Write"]
          ELSE /\ procs' = [procs EXCEPT ![p].pc = "return", ![p].ret = "error"]
               /\ UNCHANGED statsPath
    /\ UNCHANGED <<indexerVars, cliVars, flock, history, reader>>

\* appendLine with a slip: the file is truncated, not appended to.
AppendLine_Truncate(lines, line) == <<line>>

\* Line 57, O_APPEND: a write goes to the end of the file.
AppendLine(lines, line) == Append(lines, line)

\* Lines 63-64: the line is written at the end of the file, or the write fails.
appendLine_Write(p) ==
    /\ procs[p].pc = "Write"
    /\ \E written \in BOOLEAN :
          IF written
          THEN /\ statsPath' = [statsPath EXCEPT !.lines = AppendLine(@, procs[p].line)]
               /\ procs' = [procs EXCEPT ![p].pc = "return", ![p].ret = "nil"]
          ELSE /\ procs' = [procs EXCEPT ![p].pc = "return", ![p].ret = "error"]
               /\ UNCHANGED statsPath
    /\ UNCHANGED <<indexerVars, cliVars, flock, history, reader>>

\* funlock with a slip: the lock is not released.
funlock_Skipped(held, p) == held

\* flock(LOCK_UN) / UnlockFileEx, and the Close of the lock file.
funlock(held, p) == held \ {p}

\* Lines 46, 51 and 53: the deferred funlock and Close run, Record returns.
Record_Return(p) ==
    /\ procs[p].pc = "return"
    /\ flock' = funlock(flock, p)
    /\ history' = IF procs[p].ret = "nil"
                  THEN [history EXCEPT !.returned = Append(@, procs[p].e)]
                  ELSE [history EXCEPT !.failed = TRUE]
    /\ procs' = [procs EXCEPT ![p] = IdleProc]
    /\ UNCHANGED <<indexerVars, cliVars, statsPath, reader>>

\* The stats command reads the file once no Record call is running.
Stats_ReadAll ==
    /\ reader.pc = "none"
    /\ \A p \in RecorderProcs : procs[p].pc = "idle"
    /\ reader' = [reader EXCEPT !.pc = "read",
                                !.entries = ReadAll(statsPath).entries,
                                !.err = ReadAll(statsPath).err]
    /\ UNCHANGED <<indexerVars, cliVars, statsPath, flock, procs, history>>

\* Summarize is applied to the entries read, for the configured provider.
Stats_Summarize(provider) ==
    /\ reader.pc = "read"
    /\ ~reader.err
    /\ reader' = [reader EXCEPT !.pc = "summarized",
                                !.provider = provider,
                                !.summary = <<Summarize(reader.entries, provider)>>]
    /\ UNCHANGED <<indexerVars, cliVars, statsPath, flock, procs, history>>

\* HistoryByDay is applied to the entries read.
Stats_HistoryByDay ==
    /\ reader.pc = "summarized"
    /\ reader' = [reader EXCEPT !.pc = "done", !.days = HistoryByDay(reader.entries)]
    /\ UNCHANGED <<indexerVars, cliVars, statsPath, flock, procs, history>>

NextStats ==
    \/ \E p \in RecorderProcs, e \in StatsEntries : Record_Begin(p, e)
    \/ \E p \in RecorderProcs : Record_OpenLock(p)
    \/ \E p \in RecorderProcs : Context_Done(p)
    \/ \E p \in RecorderProcs : Record_Flock(p)
    \/ \E p \in RecorderProcs : Record_FlockErr(p)
    \/ \E p \in RecorderProcs : appendLine_OpenFile(p)
    \/ \E p \in RecorderProcs : appendLine_Write(p)
    \/ \E p \in RecorderProcs : Record_Return(p)
    \/ Stats_ReadAll
    \/ \E provider \in Providers : Stats_Summarize(provider)
    \/ Stats_HistoryByDay

\* Processes record into a stats file found in any of its states, then the
\* stats command reads it.
InitStats ==
    /\ disk = << >>
    /\ IndexerInit
    /\ CliInit
    /\ statsPath \in StatsFiles
    /\ history = [NoHistory EXCEPT !.absent = (statsPath.state = "absent")]
    /\ NoRecorder

SpecStats == InitStats /\ [][NextStats]_vars

----------------------------------------------------------------------------
(* C30 *)

\* IndexFile stores its chunks / saves its Document in this step.
ChunksSaved == pc = "IF_SaveChunks" /\ pc' = "IF_SaveDocument"
DocumentSaved == pc = "IF_SaveDocument" /\ pc' # pc /\ failures' = failures

\* C30: IndexFile stores the i-th chunk of the chunker with the vector the
\* embedder returns for that chunk's content, and the Document it saves has
\* the file's hash and the ids of the saved chunks in chunker order.
C30_ChunkVectorDocument ==
    [][LET chunkInfos == ChunkWithContext(cur.Path, cur.Content)
       IN  /\ ChunksSaved =>
                  \A k \in 1..Len(chunkInfos) :
                      \E c \in chunks' :
                          /\ c.ID = chunkInfos[k].ID
                          /\ c.Content = chunkInfos[k].Content
                          /\ c.Vector = Embed(chunkInfos[k].Content)
           /\ DocumentSaved =>
                  /\ HasDocument(documents', cur.Path)
                  /\ documents'[cur.Path].Hash = cur.Hash
                  /\ documents'[cur.Path].ChunkIDs =
                         [k \in 1..Len(chunkInfos) |-> chunkInfos[k].ID]
                  /\ Range(documents'[cur.Path].ChunkIDs) =
                         IDsOf(ChunksOf(chunks', cur.Path))]_vars

\* Two chunks with different vectors have been stored and the Document is next.
C30_Witness ==
    /\ pc = "IF_SaveDocument"
    /\ Len(cur.Content) = 2
    /\ Cardinality({c.Vector : c \in ChunksOf(chunks, cur.Path)}) = 2

----------------------------------------------------------------------------
(* C29 *)

\* The entries the search command has handed to a recorder or appended.
SearchEntries == recorders \cup Range(statsFile)

\* C29: GrepEquivalentTokens(0) is MinGrepTokens (50) and, for n > 0,
\* GrepEquivalentTokens(n) is n * DefaultChunkTokens * GrepExpansionFactor;
\* hence every entry the search command records has GrepTokens > 0.
C29_GrepTokensPositive ==
    /\ GrepEquivalentTokens(0) = 50
    /\ \A n \in 1..searchLimit : GrepEquivalentTokens(n) = n * 512 * 3
    /\ \A e \in SearchEntries :
          /\ e.GrepTokens = GrepEquivalentTokens(e.ResultCount)
          /\ e.GrepTokens > 0

\* A search without result has been recorded with the floor.
C29_Witness ==
    \E e \in Range(statsFile) : e.ResultCount = 0 /\ e.GrepTokens = MinGrepTokens

----------------------------------------------------------------------------
(* C21 *)

\* The process is inside appendLine.
Appending(p) == procs[p].pc \in {"appendLine", "Write"}

\* C21: writes to the stats file are serialized across processes by the
\* file lock: no two processes append at the same time, and every append
\* is made while holding the exclusive lock.
C21_AppendsSerialized ==
    /\ \A p, q \in RecorderProcs : (Appending(p) /\ Appending(q)) => p = q
    /\ \A p \in RecorderProcs : Appending(p) => flock = {p}

\* The first half alone: no two processes are inside appendLine together.
OneAppenderAtATime ==
    \A p, q \in RecorderProcs : (Appending(p) /\ Appending(q)) => p = q

\* As long as the lock file opens and flockExclusive succeeds, the appends
\* are serialized.
LockedWhenLockWorks == ~history.lockFailed => C21_AppendsSerialized

----------------------------------------------------------------------------
(* C22 *)

\* ReadAll has returned.
HasRead == reader.pc # "none"

\* The Record calls so far ran one after another into a file that was
\* missing at first, and each returned nil.
RecordedInSequence == history.absent /\ ~history.overlap /\ ~history.failed

\* C22 as stated: for any entries recorded one after another with Record
\* (each returning nil) into an initially absent stats file, ReadAll returns
\* exactly those entries, in the same order and with every field equal.
C22_AsStated ==
    (HasRead /\ RecordedInSequence)
        => (~reader.err /\ reader.entries = history.returned)

ValidUTF8(str) == \A k \in 1..Len(str) : str[k] # InvalidByte

\* The entry's strings are valid UTF-8 and its line fits in a scanner token.
Plain(e) ==
    /\ ValidUTF8(e.Timestamp) /\ ValidUTF8(e.CommandType) /\ ValidUTF8(e.OutputMode)
    /\ LineLen(Marshal(e)) < MaxScanTokenSize

\* C22, amended: entries whose strings are valid UTF-8 and whose JSON line
\* is shorter than 64 KiB, recorded one after another with Record (each
\* returning nil) into an initially absent stats file, are returned by ReadAll
\* in the same order and with every field equal.
C22_RoundTrip ==
    (HasRead /\ RecordedInSequence /\ \A e \in Range(history.returned) : Plain(e))
        => (~reader.err /\ reader.entries = history.returned)

\* Two entries, one with a quote and a backslash, were recorded and read back.
C22_Witness ==
    /\ HasRead /\ RecordedInSequence
    /\ Len(history.returned) = 2
    /\ \A e \in Range(history.returned) : Plain(e)
    /\ \E e \in Range(history.returned) : e.CommandType = <<"a", "\"", "\\">>
    /\ history.returned[1] # history.returned[2]

----------------------------------------------------------------------------
(* C23 *)

\* C23: ReadAll on a missing stats file returns an empty list and no error;
\* any other failure to open the file returns an error.
C23_MissingFileIsEmpty ==
    HasRead =>
        /\ statsPath.state = "absent" => (reader.entries = <<>> /\ ~reader.err)
        /\ statsPath.state = "denied" => reader.err

\* ReadAll has returned for a file that does not exist.
C23_Witness == HasRead /\ statsPath.state = "absent" /\ reader.entries = <<>> /\ ~reader.err

----------------------------------------------------------------------------
(* C24 *)

\* The entries of the well-formed lines, in file order.
RECURSIVE WellFormedEntries(_)
WellFormedEntries(lines) ==
    IF lines = <<>>
    THEN <<>>
    ELSE (IF WellFormed(Head(lines)) THEN <<Unmarshal(Head(lines))>> ELSE <<>>)
             \o WellFormedEntries(Tail(lines))

\* C24: ReadAll skips malformed and blank lines without failing: for any
\* file content it returns, with no error, exactly the entries of the
\* well-formed lines in file order.
C24_SkipsCorruptedLines ==
    (HasRead /\ statsPath.state = "present")
        => (~reader.err /\ reader.entries = WellFormedEntries(statsPath.lines))

\* The claim holds for a file whose lines are all shorter than a scanner token.
SkipsShortCorruptedLines ==
    (\A k \in 1..Len(statsPath.lines) : LineLen(statsPath.lines[k]) < MaxScanTokenSize)
        => C24_SkipsCorruptedLines

----------------------------------------------------------------------------
(* C25 *)

\* Summarize has returned.
HasSummary == reader.summary # <<>>

\* The total of a field over the entries, from the last entry to the first.
RECURSIVE Total(_, _, _)
Total(entries, field, n) ==
    IF n = 0 THEN 0 ELSE Total(entries, field, n - 1) + entries[n][field]

\* C25: Summarize returns TotalQueries equal to the number of entries,
\* OutputTokens and GrepTokens equal to the sums of the entries' fields, and
\* TokensSaved equal to GrepTokens - OutputTokens.
C25_SummaryTotals ==
    HasSummary =>
        LET s == reader.summary[1]
            n == Len(reader.entries)
        IN  /\ s.TotalQueries = n
            /\ s.OutputTokens = Total(reader.entries, "OutputTokens", n)
            /\ s.GrepTokens = Total(reader.entries, "GrepTokens", n)
            /\ s.TokensSaved = s.GrepTokens - s.OutputTokens

\* Several entries with several results each have been summarized.
C25_Witness ==
    /\ HasSummary
    /\ reader.summary[1].TotalQueries >= 3
    /\ Total(reader.entries, "ResultCount", Len(reader.entries)) > Len(reader.entries)
    /\ reader.summary[1].TokensSaved > 0

----------------------------------------------------------------------------
(* C26 *)

\* C26: SavingsPct is never negative, and when the total GrepTokens is 0,
\* SavingsPct is 0.
C26_SavingsPctNotNegative ==
    HasSummary =>
        /\ ~IsNegative(reader.summary[1].SavingsPct)
        /\ reader.summary[1].GrepTokens = 0 => IsZero(reader.summary[1].SavingsPct)

\* The second half alone: without grep tokens, SavingsPct is 0.
ZeroWithoutGrepTokens ==
    (HasSummary /\ reader.summary[1].GrepTokens = 0)
        => IsZero(reader.summary[1].SavingsPct)

----------------------------------------------------------------------------
(* C27 *)

\* C27: CostSavedUSD is non-nil exactly when the provider is one of "openai",
\* "openrouter" and "synthetic", and nil for any other provider.
C27_CostOnlyForCloud ==
    HasSummary =>
        (reader.summary[1].CostSavedUSD # <<>>
            <=> reader.provider \in {"openai", "openrouter", "synthetic"})

\* A summary with a cost for a cloud provider.
C27_Witness ==
    /\ HasSummary
    /\ reader.provider = "openrouter"
    /\ reader.summary[1].CostSavedUSD # <<>>
    /\ reader.summary[1].TotalQueries > 0

----------------------------------------------------------------------------
(* C28 *)

\* The calendar day (UTC) of an RFC3339 timestamp.
CalendarDay(e) == SubSeq(e.Timestamp, 1, 10)

\* C28: HistoryByDay returns exactly one DaySummary per distinct calendar
\* day present in the entries, QueryCount being the number of entries of that
\* day, sorted strictly descending by date; an empty input gives an empty list.
C28_OneSummaryPerDay ==
    reader.pc = "done" =>
        LET days == reader.days
            entries == reader.entries
            calendar == {CalendarDay(e) : e \in Range(entries)}
        IN  /\ {days[k].Date : k \in 1..Len(days)} = calendar
            /\ Len(days) = Cardinality(calendar)
            /\ \A k \in 1..Len(days) :
                  days[k].QueryCount =
                      Cardinality({j \in 1..Len(entries) :
                                      CalendarDay(entries[j]) = days[k].Date})
            /\ \A k \in 1..(Len(days) - 1) : StringGreater(days[k].Date, days[k + 1].Date)
            /\ entries = <<>> => days = <<>>

\* Two days, the later one first, one of them with several entries.
C28_Witness ==
    /\ reader.pc = "done"
    /\ Len(reader.days) = 2
    /\ reader.days[1].Date = Day22
    /\ reader.days[2].QueryCount >= 2

----------------------------------------------------------------------------
(* C31 *)

\* C31: if indexing a changed file fails inside IndexFile, the chunks and the
\* document previously stored for that file remain in the store unchanged
\* after IndexAll returns.
C31_FailedReindexKeepsData ==
    IndexAllReturned =>
        \A b \in run.before :
            b.doc # {} =>
                /\ IDsOf(ChunksOf(chunks, b.path)) = b.ids
                /\ DocumentOf(documents, b.path) = b.doc

\* The document at least survives a failed re-index until the call returns.
DocumentKeptByFailedIndexFile ==
    [][(InIndexFile /\ run'.failedFiles # run.failedFiles)
          => DocumentOf(documents', cur.Path) = run.oldDoc]_vars

----------------------------------------------------------------------------
(* C32 *)

\* The files whose indexing failed in the previous IndexAll run and whose
\* content is the same in this run's scan.
FailedLastRun ==
    IF op = "IndexAll" /\ prev.indexAll
    THEN (prev.failedFiles \ prev.changed) \cap ScannedPaths
    ELSE {}

\* The store holds the chunks of the file's content and its Document, with
\* the file's hash and the ids of those chunks.
FullyIndexed(p) ==
    /\ {ChunkInfoOf(c) : c \in ChunksOf(chunks, p)} = ExpectedChunks(p)
    /\ HasDocument(documents, p)
    /\ documents[p].Hash = ScannedFile(p).Hash
    /\ Range(documents[p].ChunkIDs) = IDsOf(ChunksOf(chunks, p))

\* This IndexAll run has returned and none of its calls failed.
ReturnedWithoutFailure == IndexAllReturned /\ err = "nil" /\ run.failed = {}

\* C32: a file whose indexing failed in one IndexAll run is never skipped
\* as unchanged in the next run while its content stays the same, so once
\* the failures stop a later IndexAll run leaves the file fully indexed.
C32_FailedFileRetried ==
    /\ FailedLastRun \cap run.unchanged = {}
    /\ ReturnedWithoutFailure => \A p \in FailedLastRun : FullyIndexed(p)

\* The first half alone: the file is not skipped as unchanged.
FailedFileNotSkipped == FailedLastRun \cap run.unchanged = {}

\* The second half for the files that have at least one chunk.
FailedFileWithChunksIndexed ==
    ReturnedWithoutFailure =>
        \A p \in FailedLastRun : ExpectedChunks(p) # {} => FullyIndexed(p)

----------------------------------------------------------------------------
(* C33 *)

\* What IndexAll returns as statistics: nil (<<>>) together with an error,
\* the IndexStats it filled otherwise.
ReturnedStats == IF err = "error" THEN <<>> ELSE <<stats>>

\* The step in which IndexAll is called and Scanner.Scan fails.
ScanFails == pc = "idle" /\ ops' # ops /\ op' = "IndexAll" /\ "Scan" \in run'.failed

\* C33: if Scanner.Scan fails, IndexAll returns an error with no statistics
\* and makes no call to the store, leaving every chunk and document unchanged.
C33_ScanFailureTouchesNothing ==
    [][ScanFails
          => /\ pc' = "idle"
             /\ err' = "error"
             /\ ReturnedStats' = <<>>
             /\ chunks' = chunks
             /\ documents' = documents]_vars

\* IndexAll has returned on a Scan failure, over a store that holds an index.
C33_Witness ==
    /\ IndexAllReturned
    /\ run.failed = {"Scan"}
    /\ err = "error"
    /\ chunks # {}
    /\ DOMAIN documents # {}

----------------------------------------------------------------------------
(* C34 *)

\* The running (or last) IndexFile call got a number of vectors different
\* from the number of its chunks.
Miscounted == op = "IndexFile" /\ run.miscount

\* C34: IndexFile never saves a chunk without its own embedding vector: if
\* EmbedBatch returns a number of vectors different from the number of
\* chunks, IndexFile returns an error and saves no chunk and no document.
C34_MiscountIsAnError ==
    Miscounted =>
        /\ run.saved = 0
        /\ run.indexed = {}
        /\ pc # "panic"
        /\ pc = "idle" => err = "error"

\* The part about the store alone: after a miscount no chunk is saved.
NoChunkSavedOnMiscount == Miscounted => run.saved = 0

\* With the right number of vectors, every stored chunk of the file carries
\* the vector of its own content.
OwnVectorWhenCounted ==
    (op = "IndexFile" /\ ~run.miscount /\ pc = "IF_SaveDocument")
        => \A c \in ChunksOf(chunks, cur.Path) : c.Vector = Embed(c.Content)

(***************************************************************************)
(* C35                                                                     *)
(***************************************************************************)

\* The context of the Record call of process p has ended before its append.
ContextEnded(p) == procs[p].ctx = "done"

\* C35: Record appends nothing once its context has been cancelled or has
\* timed out: a call whose context ended before the append, at entry or
\* while it was waiting for the file lock, returns the context's error and
\* has left the stats file unchanged.
C35_NothingAfterContextEnded ==
    \A p \in RecorderProcs :
        (procs[p].pc = "return" /\ ContextEnded(p)) => procs[p].ret = "ctx"

\* The part of C35 about the file: a call whose context ended before the
\* append does not return having appended its line.
NoAppendAfterContextEnded ==
    \A p \in RecorderProcs :
        (procs[p].pc = "return" /\ ContextEnded(p)) => procs[p].ret # "nil"

\* What Record does guarantee: a context that has ended at entry gives the
\* context's error, and such a call never reaches the lock or the file.
ContextCheckedAtEntry ==
    \A p \in RecorderProcs :
        procs[p].ret = "ctx" =>
            /\ procs[p].pc = "return"
            /\ procs[p].line = <<>>
            /\ ~procs[p].locked

(***************************************************************************)
(* C36                                                                     *)
(***************************************************************************)

\* The steps of the Record call of process p after its entry.
Record_Step(p) ==
    \/ Record_OpenLock(p)
    \/ Record_Flock(p)
    \/ appendLine_OpenFile(p)
    \/ appendLine_Write(p)
    \/ Record_Return(p)

\* The processes start before the stats file exists.
InitLock ==
    /\ InitStats
    /\ statsPath = AbsentFile

\* The stats machine under fair scheduling, started before the stats file
\* exists: a process that can take a step of its Record call eventually
\* takes one.
SpecStatsFair ==
    /\ InitLock
    /\ [][NextStats]_vars
    /\ \A p \in RecorderProcs : WF_vars(Record_Step(p))

\* Process p is blocked in flockExclusive.
Waiting(p) == procs[p].pc = "flockExclusive"

\* The lock is held only by a call that acquired it and has not returned.
HeldOnlyInsideRecord ==
    \A p \in flock : procs[p].locked /\ procs[p].pc \in {"appendLine", "Write", "return"}

\* C36: every Record call that acquires the exclusive file lock releases it
\* before returning, whether the append succeeds or fails: no lock is held
\* after return, and under fair scheduling every Record waiting for the
\* lock eventually leaves flockExclusive with the lock (or with the error
\* flockExclusive returned).
C36_LockReleased ==
    /\ []HeldOnlyInsideRecord
    /\ \A p \in RecorderProcs : Waiting(p) ~> ~Waiting(p)

\* One Record holds the lock while another one waits for it.
C36_Witness ==
    \E p, q \in RecorderProcs : p # q /\ p \in flock /\ Waiting(q)

\* A waiting Record that was granted the lock holds it in the next state.
GrantedAfterWaiting ==
    [][\A p \in RecorderProcs :
          (Waiting(p) /\ ~Waiting(p)' /\ ~history'.lockFailed) => p \in flock']_vars

====
